---- MODULE Spec2Model ----
(***************************************************************************)
(* Closest-technician resolution engine of Dispatch-Hub.                   *)
(*                                                                         *)
(*   - the browser script of the Canada W2 page (normalizePostal ...       *)
(*     findClosest), src/supabase_edge_functions/api/index.ts:531-995;     *)
(*   - the routing gateway it posts to, the Netlify function               *)
(*     "ORS Matrix" (normPostal, geocodePostalCA, matrixKmMin, handler),   *)
(*     src/unnamed/part_000.                                               *)
(*                                                                         *)
(* Strings the code inspects character by character (postal codes, ticket  *)
(* text) are sequences of one-character strings.  JavaScript null and      *)
(* undefined are the value null below; a null number is NULL.              *)
(***************************************************************************)
EXTENDS Integers, Sequences, FiniteSets, TLC

\* ------------------------------------------------------------------------
\* Bounds of the model
\* ------------------------------------------------------------------------

\* longest roster window.CA_W2_TECHS of Rosters, and longest candidate list
\* answered with every combination of driving figures
MaxRoster == 3
\* gateway driving figures (distance, duration) range over 1..MaxDrive
MaxDrive == 2
\* longest tech_postals list posted to the gateway handler
MaxDests == 3
MaxCalls == 2

\* ------------------------------------------------------------------------
\* JavaScript values
\* ------------------------------------------------------------------------

\* null / undefined where an object is expected
null == [isNull |-> TRUE]
\* null where a number is expected (every number the code handles is >= 0)
NULL == -1

Min(a, b) == IF a <= b THEN a ELSE b

\* F applied to the value of v: a local constant, computed once
Let(v, F(_)) == CHOOSE r \in { F(x) : x \in {v} } : TRUE

\* ------------------------------------------------------------------------
\* Characters
\* ------------------------------------------------------------------------

LOWER == << "a","b","c","d","e","f","g","h","i","j","k","l","m",
            "n","o","p","q","r","s","t","u","v","w","x","y","z" >>
UPPER == << "A","B","C","D","E","F","G","H","I","J","K","L","M",
            "N","O","P","Q","R","S","T","U","V","W","X","Y","Z" >>
Letters == { UPPER[i] : i \in 1..26 }
Digits == { "0","1","2","3","4","5","6","7","8","9" }
Whitespace == { " " }

AlphaNum == Letters \cup Digits

\* the upper-case letter of each lower-case letter
UPPER_OF == [c \in { LOWER[i] : i \in 1..26 } |-> UPPER[CHOOSE i \in 1..26 : LOWER[i] = c]]

\* String.prototype.toUpperCase, one character
toUpperChar(c) == IF c \in DOMAIN UPPER_OF THEN UPPER_OF[c] ELSE c

toUpperCase(s) == [i \in 1..Len(s) |-> toUpperChar(s[i])]

\* String.prototype.trim: from the first to the last non-whitespace character
trim(s) ==
  Let(s, LAMBDA t :
  Let({ i \in 1..Len(t) : t[i] \notin Whitespace }, LAMBDA keep :
      IF keep = {} THEN <<>>
      ELSE SubSeq(t, CHOOSE i \in keep : \A j \in keep : i <= j,
                     CHOOSE i \in keep : \A j \in keep : j <= i)))

\* s.replace(/[^A-Z0-9]/g, '')
stripNonAlnum(s) == SelectSeq(s, LAMBDA c : c \in AlphaNum)

\* s.slice(0, n)
slice0(s, n) == SubSeq(s, 1, Min(n, Len(s)))

\* ------------------------------------------------------------------------
\* Postal normalizer (browser script)
\* ------------------------------------------------------------------------

\* /^[A-Z]\d[A-Z]\d[A-Z]\d$/
IsLDLDLD(s) ==
  /\ Len(s) = 6
  /\ s[1] \in Letters /\ s[2] \in Digits /\ s[3] \in Letters
  /\ s[4] \in Digits /\ s[5] \in Letters /\ s[6] \in Digits

\* The page inputs enumerated: rosters, postal-province maps, ticket fields

\* roster entries: resolved by override, by province centroid, by city
\* centroid (with the province derived from the postal code), and unresolvable
TechPool ==
  { [tech_id |-> 1, postal |-> <<"T","2","P"," ","1","J","9">>, city |-> "Calgary", province |-> "ab"],
    [tech_id |-> 2, postal |-> <<"r","2","c","0","a","1">>, city |-> "Brandon", province |-> "mb "],
    [tech_id |-> 3, postal |-> <<"R","3","C","-","4","A","5">>, city |-> "Winnipeg", province |-> ""],
    [tech_id |-> 4, postal |-> <<"N","/","A">>, city |-> "Winnipeg", province |-> "MB"] }

\* rosters: sequences of distinct technicians
Rosters ==
  UNION { { r \in [1..n -> TechPool] : \A i, j \in 1..n : i # j => r[i] # r[j] } :
          n \in 0..MaxRoster }

\* window.CA_POSTAL_PROV: absent (empty) or with one entry
PostalProvMaps == { <<>>, (<<"Z","1","Z","1","Z","1">> :> "nu") }

\* (postalInput.value, ticketText.value)
TicketInputs ==
  { << <<"k","1","a"," ","0","b","1">>, <<>> >>,
    << <<>>, <<"t","o"," ","T","2","P"," ","1","J","9","!">> >>,
    << <<>>, <<"n","o"," ","c","o","d","e">> >>,
    << <<"Z","1","Z","1","Z","1">>, <<>> >> }

\* a normalizer without the pattern test of line 577
normalizePostalStepsNoPattern(s) ==
  Let(stripNonAlnum(trim(toUpperCase(s))), LAMBDA f :
  Let(IF Len(f) >= 6 THEN slice0(f, 6) ELSE f, LAMBDA t :
      IF Len(t) # 6 THEN <<>> ELSE t))

\* the steps of normalizePostal: '' (the empty sequence) is the failure value
normalizePostalSteps(s) ==
  Let(stripNonAlnum(trim(toUpperCase(s))), LAMBDA f :
  Let(IF Len(f) >= 6 THEN slice0(f, 6) ELSE f, LAMBDA t :
      IF Len(t) # 6 THEN <<>>
      ELSE IF ~IsLDLDLD(t) THEN <<>>
      ELSE t))

\* normalizePostalSteps over the postal strings of the inputs above and their
\* normalized forms, computed once
NORMALIZED ==
  LET raw == { t.postal : t \in TechPool } \cup { in[1] : in \in TicketInputs }
  IN  [s \in raw \cup { normalizePostalSteps(r) : r \in raw } |-> normalizePostalSteps(s)]

\* normalizePostal
normalizePostal(s) ==
  IF s \in DOMAIN NORMALIZED THEN NORMALIZED[s] ELSE normalizePostalSteps(s)

\* a formatter that puts the second half first
formatPostalSwapped(p6) ==
  Let(normalizePostal(p6), LAMBDA q :
      IF q = <<>> THEN <<>> ELSE SubSeq(q, 4, 6) \o <<" ">> \o SubSeq(q, 1, 3))

\* formatPostal
formatPostal(p6) ==
  Let(normalizePostal(p6), LAMBDA q :
      IF q = <<>> THEN <<>> ELSE SubSeq(q, 1, 3) \o <<" ">> \o SubSeq(q, 4, 6))

\* the letter class [ABCEGHJ-NPRSTVXY] of CA_POSTAL_RE, matched with flag i
PostalLetters ==
  { "A","B","C","E","G","H","J","K","L","M","N","P","R","S","T","V","X","Y" }

IsPostalLetter(c) == toUpperChar(c) \in PostalLetters

\* \w of the regular expression
IsWordChar(c) == toUpperChar(c) \in Letters \cup Digits \cup {"_"}

\* the position of the first non-whitespace character of t at or after i
skipSpace(t, i) ==
  LET stop == { j \in i..Len(t) : t[j] \notin Whitespace }
  IN  IF stop = {} THEN Len(t) + 1 ELSE CHOOSE j \in stop : \A k \in stop : j <= k

\* the expression without its two \\b
matchPostalAtUnbounded(t, i) ==
  IF /\ i + 2 <= Len(t)
     /\ IsPostalLetter(t[i]) /\ t[i + 1] \in Digits /\ IsPostalLetter(t[i + 2])
  THEN LET j == skipSpace(t, i + 3)
       IN  IF /\ j + 2 <= Len(t)
              /\ t[j] \in Digits /\ IsPostalLetter(t[j + 1]) /\ t[j + 2] \in Digits
           THEN j + 3
           ELSE 0
  ELSE 0

\* CA_POSTAL_RE matches at position i of t: the position after the match, else 0
matchPostalAt(t, i) ==
  IF /\ i + 2 <= Len(t)
     /\ (i = 1 \/ ~IsWordChar(t[i - 1]))
     /\ IsPostalLetter(t[i]) /\ t[i + 1] \in Digits /\ IsPostalLetter(t[i + 2])
  THEN LET j == skipSpace(t, i + 3)
       IN  IF /\ j + 2 <= Len(t)
              /\ t[j] \in Digits /\ IsPostalLetter(t[j + 1]) /\ t[j + 2] \in Digits
              /\ (j + 3 > Len(t) \/ ~IsWordChar(t[j + 3]))
           THEN j + 3
           ELSE 0
  ELSE 0

\* extractPostalFromText: the leftmost match of CA_POSTAL_RE, normalized
extractPostalFromText(text) ==
  Let({ i \in 1..Len(text) : matchPostalAt(text, i) # 0 }, LAMBDA hits :
      IF hits = {} THEN <<>>
      ELSE Let(CHOOSE h \in hits : \A g \in hits : h <= g, LAMBDA i :
           Let(matchPostalAt(text, i) - 3, LAMBDA j :
               normalizePostal(SubSeq(text, i, i + 2) \o SubSeq(text, j, j + 2)))))

\* ------------------------------------------------------------------------
\* Reference tables (browser script)
\* ------------------------------------------------------------------------

\* String(x).toUpperCase() on the city and province spellings of the rosters
upperStr(s) ==
  CASE s = "Calgary"  -> "CALGARY"
    [] s = "Winnipeg" -> "WINNIPEG"
    [] s = "Brandon"  -> "BRANDON"
    [] s = "ab"       -> "AB"
    [] s = "mb "      -> "MB "
    [] s = "nu"       -> "NU"
    [] OTHER          -> s

\* String.prototype.trim on the same spellings
trimStr(s) ==
  CASE s = "MB "  -> "MB"
    [] s = " "    -> ""
    [] OTHER      -> s

\* a rule table without the line for Y
provFromFirstLetterNoY(ch) ==
  LET c == toUpperChar(ch)
  IN  CASE c = "A" -> "NL"
        [] c = "B" -> "NS"
        [] c = "C" -> "PE"
        [] c = "E" -> "NB"
        [] c \in {"G", "H", "J"} -> "QC"
        [] c \in {"K", "L", "M", "N", "P"} -> "ON"
        [] c = "R" -> "MB"
        [] c = "S" -> "SK"
        [] c = "T" -> "AB"
        [] c = "V" -> "BC"
        [] c = "X" -> "NT"
        [] OTHER -> ""

\* provFromFirstLetter
provFromFirstLetter(ch) ==
  LET c == toUpperChar(ch)
  IN  CASE c = "A" -> "NL"
        [] c = "B" -> "NS"
        [] c = "C" -> "PE"
        [] c = "E" -> "NB"
        [] c \in {"G", "H", "J"} -> "QC"
        [] c \in {"K", "L", "M", "N", "P"} -> "ON"
        [] c = "R" -> "MB"
        [] c = "S" -> "SK"
        [] c = "T" -> "AB"
        [] c = "V" -> "BC"
        [] c = "X" -> "NT"
        [] c = "Y" -> "YT"
        [] OTHER -> ""

\* a coordinate, in 1/10000 degree
LL(lat, lon) == [lat |-> lat, lon |-> lon]

\* PROV_CENTER
PROV_CENTER ==
  [ NL |-> LL(475615, -527126),  NS |-> LL(446488, -635752),
    PE |-> LL(462382, -631311),  NB |-> LL(459636, -666431),
    QC |-> LL(455017, -735673),  ON |-> LL(436532, -793832),
    MB |-> LL(498951, -971384),  SK |-> LL(504452, -1046189),
    AB |-> LL(535461, -1134938), BC |-> LL(492827, -1231207),
    NT |-> LL(624540, -1143718), NU |-> LL(637467, -685167),
    YT |-> LL(607212, -1350568) ]

\* CITY_COORD, keyed by the pair (city, province) for the key city + '|' + province
CITY_COORD ==
  ( <<"FREDERICKTON", "NB">> :> LL(459636, -666431) ) @@
  ( <<"FREDERICTON", "NB">> :> LL(459636, -666431) ) @@
  ( <<"WINNIPEG", "MB">> :> LL(498951, -971384) ) @@
  ( <<"CALGARY", "AB">> :> LL(510447, -1140719) ) @@
  ( <<"LAVAL", "QC">> :> LL(456066, -737124) ) @@
  ( <<"THORNHILL", "ON">> :> LL(438106, -794263) ) @@
  ( <<"EDMONTON", "AB">> :> LL(535461, -1134938) ) @@
  ( <<"RICHMOND (VANCOUVER)", "BC">> :> LL(491666, -1231336) ) @@
  ( <<"RICHMOND", "BC">> :> LL(491666, -1231336) ) @@
  ( <<"SCARBOROUGH", "ON">> :> LL(437764, -792318) )

\* every coordinate the two tables hold (the only coordinates the script handles)
COORDS == <<
  LL(475615, -527126), LL(446488, -635752), LL(462382, -631311),
  LL(459636, -666431), LL(455017, -735673), LL(436532, -793832),
  LL(498951, -971384), LL(504452, -1046189), LL(535461, -1134938),
  LL(492827, -1231207), LL(624540, -1143718), LL(637467, -685167),
  LL(607212, -1350568), LL(510447, -1140719), LL(456066, -737124),
  LL(438106, -794263), LL(491666, -1231336), LL(437764, -792318) >>

\* haversineKm (R = 6371) evaluated on COORDS x COORDS, in metres
KM_TABLE == <<
  <<0, 896940, 804475, 1074355, 1606695, 2108625, 3220762, 3722231, 4211813, 5005067, 4073283, 2041818, 5176417, 4335554, 1614467, 2105578, 5011577, 2092344>>,
  <<896940, 0, 180096, 280930, 789800, 1264060, 2575399, 3105521, 3683936, 4429670, 3757618, 2146249, 4854414, 3757991, 801822, 1264392, 4434313, 1249658>>,
  <<804475, 180096, 0, 272474, 811554, 1308441, 2536973, 3060873, 3617578, 4377757, 3646769, 1975257, 4748120, 3704737, 820863, 1306334, 4382908, 1292621>>,
  <<1074355, 280930, 272474, 0, 539697, 1036111, 2297028, 2826088, 3403081, 4149399, 3490507, 1980817, 4583999, 3477514, 549421, 1033900, 4154101, 1020228>>,
  <<1606695, 789800, 811554, 539697, 0, 504262, 1821878, 2357373, 2973146, 3686320, 3183072, 2053106, 4248594, 3020240, 16239, 499973, 3690102, 487368>>,
  <<2108625, 1264060, 1308441, 1036111, 504262, 0, 1514689, 2043317, 2705672, 3358910, 3069437, 2338397, 4082242, 2710811, 498393, 17841, 3361252, 18323>>,
  <<3220762, 2575399, 2536973, 2297028, 1821878, 1514689, 0, 536039, 1194286, 1864737, 1745602, 2289909, 2634866, 1202550, 1806823, 1502203, 1868381, 1517372>>,
  <<3722231, 3105521, 3060873, 2826088, 2357373, 2043317, 536039, 0, 697927, 1328952, 1459928, 2580629, 2198726, 667990, 2342244, 2031485, 1332744, 2046894>>,
  <<4211813, 3683936, 3617578, 3403081, 2973146, 2705672, 1194286, 697927, 0, 817713, 991840, 2765067, 1515742, 280905, 2957386, 2692605, 826632, 2707495>>,
  <<5005067, 4429670, 4377757, 4149399, 3686320, 3358910, 1864737, 1328952, 817713, 0, 1559695, 3572141, 1477187, 673168, 3671181, 3348078, 12944, 3363770>>,
  <<4073283, 3757618, 3646769, 3490507, 3183072, 3069437, 1745602, 1459928, 991840, 1559695, 0, 2261549, 1106240, 1268785, 3166893, 3053112, 1572324, 3065198>>,
  <<2041818, 2146249, 1975257, 1980817, 2053106, 2338397, 2289909, 2580629, 2765067, 3572141, 2261549, 0, 3305489, 2986079, 2042945, 2322188, 3582273, 2322252>>,
  <<5176417, 4854414, 4748120, 4583999, 4248594, 4082242, 2634866, 2198726, 1515742, 1477187, 1106240, 3305489, 0, 1681334, 4232355, 4067010, 1488380, 4080381>>,
  <<4335554, 3757991, 3704737, 3477514, 3020240, 2710811, 1202550, 667990, 280905, 673168, 1268785, 2986079, 1681334, 0, 3004929, 2699118, 678639, 2714568>>,
  <<1614467, 801822, 820863, 549421, 16239, 498393, 1806823, 2342244, 2957386, 3671181, 3166893, 2042945, 4232355, 3004929, 0, 493584, 3674984, 481289>>,
  <<2105578, 1264392, 1306334, 1033900, 499973, 17841, 1502203, 2031485, 2692605, 3348078, 3053112, 2322188, 4067010, 2699118, 493584, 0, 3350476, 16068>>,
  <<5011577, 4434313, 4382908, 4154101, 3690102, 3361252, 1868381, 1332744, 826632, 12944, 1572324, 3582273, 1488380, 678639, 3674984, 3350476, 0, 3366182>>,
  <<2092344, 1249658, 1292621, 1020228, 487368, 18323, 1517372, 2046894, 2707495, 3363770, 3065198, 2322252, 4080381, 2714568, 481289, 16068, 3366182, 0>>
>>

\* a distance that keeps the sign of the difference in latitude: sin(dLat/2)
\* and sin(dLon/2) taken without their squares
haversineKmSigned(a, b) ==
  Let(LL(a.lat, a.lon), LAMBDA pa :
  Let(LL(b.lat, b.lon), LAMBDA pb :
  Let(KM_TABLE[CHOOSE i \in 1..Len(COORDS) : COORDS[i] = pa]
              [CHOOSE i \in 1..Len(COORDS) : COORDS[i] = pb], LAMBDA km :
      IF pb.lat < pa.lat THEN 0 - km ELSE km)))

\* haversineKm, in metres, for coordinates of the tables
haversineKm(a, b) ==
  Let(LL(a.lat, a.lon), LAMBDA pa :
  Let(LL(b.lat, b.lon), LAMBDA pb :
      KM_TABLE[CHOOSE i \in 1..Len(COORDS) : COORDS[i] = pa]
              [CHOOSE i \in 1..Len(COORDS) : COORDS[i] = pb]))

\* ------------------------------------------------------------------------
\* State
\* ------------------------------------------------------------------------

VARIABLES
  \* browser page: configuration loaded with the script
  TECHS,          \* window.CA_W2_TECHS, the roster
  POSTAL_PROV,    \* window.CA_POSTAL_PROV, postal -> province
  POSTAL_OVERRIDE,\* postal -> coordinate, built from TECHS when the script loads
  ORS_ENDPOINT,   \* '' when window.API_BASE is not set
  \* browser page: input fields
  postalInput,    \* postalInput.value
  ticketText,     \* ticketText.value
  driveFactor,    \* driveFactor.value parsed, in 1/100
  \* findClosest: position and locals
  pc,             \* "idle", "awaiting" (at await postJson), "done", "failed"
  p,              \* the normalized ticket postal
  ticketLL,
  rows,           \* the objects pushed to scored, in creation order
  scored,         \* the array scored: references into rows
  candidates,     \* the array candidates: references into rows
  usedORS,
  best,           \* reference into rows, 0 for null
  listToRender,
  \* browser page: result panel
  status,         \* status.textContent
  resTitle,       \* tech_id shown in resTitle, 0 for the dash
  resMeta,        \* the Mode: part of resMeta.textContent
  kmEl,           \* straight-line metres shown in kmEl
  driveKmEl,      \* what driveKmEl shows: [tag |-> "ORS", km] or [tag |-> "factor", factor]
  kpiRow,         \* kpiRow.style.display
  topList,        \* the items of topList
  topListDisplay, \* topList.style.display
  \* observation of one findClosest run
  trace,          \* the steps of the run, in order
  gatewayCalls,   \* requests posted to ORS_ENDPOINT
  request,        \* the body of the last request posted to ORS_ENDPOINT
  resolveCalls,   \* calls of latLonForPostal
  response,       \* what the awaited postJson produced
  \* routing gateway (Netlify function): module state and environment
  ORS_KEY,        \* process.env.ORS_API_KEY || process.env.ORS_KEY || ""
  GEO_CACHE,      \* the warm-invocation Map: key -> { lon, lat }
  \* routing gateway: one invocation of handler
  event,          \* the event handler is called with
  hpc,            \* "idle", "origin", "dests", "matrix" (at the awaits), "returned", "threw"
  ticket,         \* normPostal(ticket_postal)
  tech,           \* the destination keys of line 115
  src,            \* the origin coordinate
  destsRaw,       \* the results of tech.map(geocodePostalCA) so far
  pending,        \* indexes of tech whose geocode fetch is in flight
  result,         \* what handler returned
  \* observation of one invocation
  matrixRequests, \* requests sent to ORS_MATRIX_URL by this invocation
  srcOutcome,     \* how the origin's geocode call ended
  destOutcome,    \* how each destination's geocode call ended
  \* edge function, route /canada/ors_matrix: environment and one request
  ORS_API_KEY,    \* Deno.env.get("ORS_API_KEY") || ""
  body,           \* what req.json() gave: job_lat/job_lng and tech
  epc,            \* "idle", "geocoding", "matrix" (at the awaits), "returned"
  techList,       \* the postal of each entry of techList
  geoCache,       \* the in-request Map: postal -> { lat, lng } | null
  cursor,         \* entries of techList the loop of line 334 is through with
  destinations,
  idxMap,
  payload,        \* the body of the matrix request
  edgeResponse,   \* the Response returned
  geocodeCalls,   \* observation: the postal of each request sent to the geocoder
  \* routing gateway (Netlify function): the calls of geocodePostalCA that
  \* concurrent invocations of handler have in progress
  geoCalls,       \* each call's position ("fetch", "json": at its awaits) and locals
  served,         \* observation: the coordinates the geocoder returned, with their key
  \* edge function, every route: environment, database and one request
  SUPABASE_URL,   \* Deno.env.get("SUPABASE_URL") || ""
  SERVICE_ROLE,   \* Deno.env.get("SUPABASE_SERVICE_ROLE_KEY") || ""
  ADMIN_TOKEN,    \* Deno.env.get("ADMIN_TOKEN") || ""
  CA_POSTAL_TABLE,\* Deno.env.get("CA_POSTAL_TABLE") || ""
  db,             \* the tables of schema public: table -> [exists, cols, rows]
  req,            \* the Request served
  apc,            \* "idle", "upload", "select" (at the awaits), "responded"
  sheetCursor,    \* sheets of the workbook the loop of line 187 is through with
  apiResponse,    \* the Response returned
  dbOps,          \* observation: the statements and queries this request ran
  \* browser page: a session of several events on the loaded page
  runs,           \* the calls of findClosest made, in the order started: their locals
  tmo,            \* the variable tmo of line 982: a timer id, 0 for null
  timers,         \* the timers set and neither fired nor cleared
  timersSet,      \* calls of setTimeout so far; the next id is this plus one
  \* one call of a function of the browser script, taken on its own
  input,          \* the function called and its arguments
  output          \* what the call returned

pageVars == << TECHS, POSTAL_PROV, POSTAL_OVERRIDE, ORS_ENDPOINT, postalInput, ticketText, driveFactor >>
runVars == << pc, p, ticketLL, rows, scored, candidates, usedORS, best, listToRender >>
panelVars == << status, resTitle, resMeta, kmEl, driveKmEl, kpiRow, topList, topListDisplay >>
obsVars == << trace, gatewayCalls, request, resolveCalls, response >>
gwVars == << ORS_KEY, GEO_CACHE, event, hpc, ticket, tech, src, destsRaw, pending, result,
             matrixRequests, srcOutcome, destOutcome >>
callVars == << input, output >>
poolVars == << geoCalls, served >>
apiVars == << SUPABASE_URL, SERVICE_ROLE, ADMIN_TOKEN, CA_POSTAL_TABLE, db, req, apc,
              sheetCursor, apiResponse, dbOps >>
sessionVars == << runs, tmo, timers, timersSet >>
extVars == << apiVars, sessionVars >>
edgeVars == << ORS_API_KEY, body, epc, techList, geoCache, cursor, destinations, idxMap,
               payload, edgeResponse, geocodeCalls >>

\* ------------------------------------------------------------------------
\* Geolocation resolver (browser script)
\* ------------------------------------------------------------------------

\* the key city + '|' + province the override loop builds for a roster entry
overrideKey(t) == << trimStr(upperStr(t.city)), trimStr(upperStr(t.province)) >>

\* the positions of roster ts whose entry sets POSTAL_OVERRIDE[q]
overrideSetters(ts, q) ==
  { i \in 1..Len(ts) :
      /\ normalizePostal(ts[i].postal) = q
      /\ overrideKey(ts[i]) \in DOMAIN CITY_COORD }

\* the table the loop of lines 646-652 builds from roster ts: entries with no
\* normalized postal are skipped, the last entry that sets a key wins
buildPostalOverride(ts) ==
  Let({ normalizePostal(ts[i].postal) : i \in 1..Len(ts) } \ { <<>> }, LAMBDA ps :
  Let({ q \in ps : overrideSetters(ts, q) # {} }, LAMBDA keys :
      [q \in keys |->
         Let(overrideSetters(ts, q), LAMBDA S :
             CITY_COORD[overrideKey(ts[CHOOSE i \in S : \A j \in S : j <= i])])]))

\* a derivation that does not consult the postal-province map
provForPostalLetterOnly(p6) ==
  Let(normalizePostal(p6), LAMBDA q :
      IF q = <<>> THEN "" ELSE provFromFirstLetter(q[1]))

\* provForPostal
provForPostal(p6) ==
  Let(normalizePostal(p6), LAMBDA q :
      IF q = <<>> THEN ""
      ELSE IF q \in DOMAIN POSTAL_PROV /\ POSTAL_PROV[q] # ""
           THEN upperStr(POSTAL_PROV[q])
           ELSE provFromFirstLetter(q[1]))

\* a resolver that tries the city table before the override table
latLonForPostalCityFirst(p6, cityHint, provHint) ==
  Let(normalizePostal(p6), LAMBDA q :
      IF q = <<>> THEN null
      ELSE
  Let(IF provHint # "" THEN trimStr(upperStr(provHint)) ELSE provForPostal(q), LAMBDA prov :
  Let(IF cityHint # "" THEN trimStr(upperStr(cityHint)) ELSE "", LAMBDA city :
      IF city # "" /\ prov # "" /\ <<city, prov>> \in DOMAIN CITY_COORD
        THEN [lat |-> CITY_COORD[<<city, prov>>].lat, lon |-> CITY_COORD[<<city, prov>>].lon,
              prec |-> "city", prov |-> prov, city |-> city]
      ELSE IF q \in DOMAIN POSTAL_OVERRIDE
        THEN [lat |-> POSTAL_OVERRIDE[q].lat, lon |-> POSTAL_OVERRIDE[q].lon,
              prec |-> "postal", prov |-> prov, city |-> city]
      ELSE IF prov # "" /\ prov \in DOMAIN PROV_CENTER
        THEN [lat |-> PROV_CENTER[prov].lat, lon |-> PROV_CENTER[prov].lon,
              prec |-> "prov", prov |-> prov, city |-> ""]
      ELSE null)))

\* latLonForPostal; a missing hint is ''
latLonForPostal(p6, cityHint, provHint) ==
  Let(normalizePostal(p6), LAMBDA q :
      IF q = <<>> THEN null
      ELSE
  Let(IF provHint # "" THEN trimStr(upperStr(provHint)) ELSE provForPostal(q), LAMBDA prov :
  Let(IF cityHint # "" THEN trimStr(upperStr(cityHint)) ELSE "", LAMBDA city :
      IF q \in DOMAIN POSTAL_OVERRIDE
        THEN [lat |-> POSTAL_OVERRIDE[q].lat, lon |-> POSTAL_OVERRIDE[q].lon,
              prec |-> "postal", prov |-> prov, city |-> city]
      ELSE IF city # "" /\ prov # "" /\ <<city, prov>> \in DOMAIN CITY_COORD
        THEN [lat |-> CITY_COORD[<<city, prov>>].lat, lon |-> CITY_COORD[<<city, prov>>].lon,
              prec |-> "city", prov |-> prov, city |-> city]
      ELSE IF prov # "" /\ prov \in DOMAIN PROV_CENTER
        THEN [lat |-> PROV_CENTER[prov].lat, lon |-> PROV_CENTER[prov].lon,
              prec |-> "prov", prov |-> prov, city |-> ""]
      ELSE null)))

\* ------------------------------------------------------------------------
\* Distance estimator (browser script)
\* ------------------------------------------------------------------------

\* PROV_PENALTY, in 1/100
PROV_PENALTY ==
  [ QC |-> 540, ON |-> 600, BC |-> 800, AB |-> 700, MB |-> 650, SK |-> 650,
    NB |-> 580, NS |-> 580, PE |-> 580, NL |-> 620, YT |-> 850, NT |-> 900,
    NU |-> 950 ]

\* the Number values that are not finite, written as integers outside the
\* range of every scaled figure
NaN == 2000000001
POS_INFINITY == 2000000002
NEG_INFINITY == 2000000003

\* isFinite
isFinite(x) == x \notin { NaN, POS_INFINITY, NEG_INFINITY }

\* clamp: lo for a value that is not finite
clamp(x, lo, hi) ==
  IF ~isFinite(x) THEN lo ELSE IF x < lo THEN lo ELSE IF x > hi THEN hi ELSE x

\* the keys every object literal inherits: PROV_PENALTY[prov] is a function
\* for them, and m * function is NaN
INHERITED_KEYS == { "constructor", "toString", "valueOf", "hasOwnProperty" }

\* PROV_PENALTY[prov] || 6.0, in 1/100
penaltyOf(prov) ==
  IF prov \in DOMAIN PROV_PENALTY THEN PROV_PENALTY[prov]
  ELSE IF prov \in INHERITED_KEYS THEN NaN
  ELSE 600

\* lines 715-722: m, with base in 1/100 and the result in 1/100000; a product
\* with an operand that is not finite is that operand (the factors are
\* positive), a product with NaN is NaN
driveProduct(base, tLL, techLL) ==
  LET pen == IF tLL # null /\ tLL.prec = "prov" THEN penaltyOf(tLL.prov) ELSE 100
      m1 == IF ~isFinite(base) THEN base
            ELSE IF ~isFinite(pen) THEN NaN
            ELSE base * pen * 10
  IN  IF isFinite(m1) /\ techLL # null /\ techLL.prec = "prov"
      THEN (m1 * 18) \div 10 ELSE m1

\* an estimator that leaves out the clamp of line 723
effectiveDriveFactorUnclamped(base, tLL, techLL) == driveProduct(base, tLL, techLL)

\* an estimator that leaves out the technician's factor of lines 720-722
effectiveDriveFactorTicketOnly(base, tLL, techLL) ==
  clamp(driveProduct(base, tLL, null), 100000, 1200000)

\* effectiveDriveFactor
effectiveDriveFactor(base, tLL, techLL) ==
  clamp(driveProduct(base, tLL, techLL), 100000, 1200000)

\* ------------------------------------------------------------------------
\* Ranking engine (browser script)
\* ------------------------------------------------------------------------

\* candidates = scored.slice(0, 25)
TOP_K == 25
\* renderTopList shows sorted.slice(0, Math.min(8, sorted.length))
TOP_SHOWN == 8
\* the comparator's stand-in for a null driving figure (1e12 in the source,
\* scaled to the integers available; above every figure a gateway returns)
DRIVE_INF == 1000000000

\* Array.prototype.sort with comparator cmp (stable, cmp a consistent order):
\* the element at position i of s goes behind every element that compares
\* smaller and every earlier element that compares equal.
sortSeq(s, cmp(_, _)) ==
  LET n == Len(s)
      rank(i) == 1 + Cardinality({ j \in 1..n :
                       \/ cmp(s[j], s[i]) < 0
                       \/ cmp(s[j], s[i]) = 0 /\ j < i })
  IN  [k \in 1..n |-> s[CHOOSE i \in 1..n : rank(i) = k]]

\* a comparator with the operands swapped: the farthest first
cmpKmDescending(a, b) == b.km - a.km

\* (a,b) => a.km - b.km
cmpKm(a, b) == a.km - b.km

\* a comparator that reads a null driving figure as 0: the nulls first
cmpDriveNullAsZero(a, b) ==
  LET am == IF a.driveMin # NULL THEN a.driveMin ELSE 0
      bm == IF b.driveMin # NULL THEN b.driveMin ELSE 0
      ak == IF a.driveKm # NULL THEN a.driveKm ELSE 0
      bk == IF b.driveKm # NULL THEN b.driveKm ELSE 0
  IN  IF am # bm THEN am - bm ELSE ak - bk

\* the comparator of candidates.sort: duration, then distance, null as DRIVE_INF
cmpDrive(a, b) ==
  LET am == IF a.driveMin # NULL THEN a.driveMin ELSE DRIVE_INF
      bm == IF b.driveMin # NULL THEN b.driveMin ELSE DRIVE_INF
      ak == IF a.driveKm # NULL THEN a.driveKm ELSE DRIVE_INF
      bk == IF b.driveKm # NULL THEN b.driveKm ELSE DRIVE_INF
  IN  IF am # bm THEN am - bm ELSE ak - bk

\* the roster positions the scoring loop keeps: latLonForPostal is not null
scoredTechs ==
  SelectSeq([i \in 1..Len(TECHS) |-> i],
            LAMBDA i : latLonForPostal(TECHS[i].postal, TECHS[i].city, TECHS[i].province) # null)

\* the object pushed to scored for roster position i
scoreRow(i, tLL) ==
  Let(latLonForPostal(TECHS[i].postal, TECHS[i].city, TECHS[i].province), LAMBDA ll :
      [tech |-> i, km |-> haversineKm(tLL, ll), ll |-> ll,
       driveKm |-> NULL, driveMin |-> NULL])

\* a scoring loop without the skip of line 854: an unresolved technician is
\* scored at an infinite distance
scoreRosterNoSkip(tLL) ==
  [i \in 1..Len(TECHS) |->
     Let(latLonForPostal(TECHS[i].postal, TECHS[i].city, TECHS[i].province), LAMBDA ll :
         IF ll = null
         THEN [tech |-> i, km |-> DRIVE_INF, ll |-> null, driveKm |-> NULL, driveMin |-> NULL]
         ELSE scoreRow(i, tLL))]

\* the scoring loop over TECHS: one object per resolved technician, in roster order
scoreRoster(tLL) ==
  Let(scoredTechs, LAMBDA st : [k \in 1..Len(st) |-> scoreRow(st[k], tLL)])

\* a list rendered without the slice of line 797
renderTopListAll(sorted, showDriving, rs) ==
  [i \in 1..Len(sorted) |->
     LET row == rs[sorted[i]]
     IN  IF showDriving /\ row.driveKm # NULL /\ row.driveMin # NULL
         THEN [tech_id |-> TECHS[row.tech].tech_id, right |-> "driving",
               min |-> row.driveMin, km |-> row.driveKm]
         ELSE [tech_id |-> TECHS[row.tech].tech_id, right |-> "straight",
               min |-> NULL, km |-> row.km]]

\* the items renderTopList puts into topList
renderTopList(sorted, showDriving, rs) ==
  LET top == slice0(sorted, Min(TOP_SHOWN, Len(sorted)))
  IN  [i \in 1..Len(top) |->
         LET row == rs[top[i]]
         IN  IF showDriving /\ row.driveKm # NULL /\ row.driveMin # NULL
             THEN [tech_id |-> TECHS[row.tech].tech_id, right |-> "driving",
                   min |-> row.driveMin, km |-> row.driveKm]
             ELSE [tech_id |-> TECHS[row.tech].tech_id, right |-> "straight",
                   min |-> NULL, km |-> row.km]]

\* candidates.find(x => x.driveKm != null && x.driveMin != null) || candidates[0]
findBest(cands, rs) ==
  LET full == { i \in 1..Len(cands) : rs[cands[i]].driveKm # NULL /\ rs[cands[i]].driveMin # NULL }
  IN  IF full # {} THEN cands[CHOOSE i \in full : \A j \in full : i <= j]
      ELSE cands[1]

\* ------------------------------------------------------------------------
\* Inputs enumerated
\* ------------------------------------------------------------------------

\* driveFactor.value as parseFloat reads it, in 1/100 (0: empty or not a number)
DriveFactors == { 0 }

\* what the awaited postJson call can produce for n candidates
DriveValues == { NULL } \cup (1..MaxDrive)

\* figures for n candidates with one candidate k ahead of the others (none
\* for k = 0), the others all null or all at the largest figure
DrivePatterns(n) ==
  { [i \in 1..n |-> IF i = k THEN 1 ELSE other] : k \in 0..n, other \in { NULL, MaxDrive } }

\* the ok bodies for n candidates: every combination of figures up to
\* MaxRoster candidates; for longer lists the patterns above, as distances
\* and durations alike or as durations with no distance
OkBodies(n) ==
  IF n <= MaxRoster
  THEN [kind : {"ok"}, distances_km : [1..n -> DriveValues], durations_min : [1..n -> DriveValues]]
  ELSE { [kind |-> "ok", distances_km |-> IF withKm THEN m ELSE [i \in 1..n |-> NULL],
          durations_min |-> m] : m \in DrivePatterns(n), withKm \in BOOLEAN }

Responses(n) ==
  [kind : {"network error", "http error", "empty body", "ok false"},
   distances_km : { <<>> }, durations_min : { <<>> }]
  \cup OkBodies(n)

\* ------------------------------------------------------------------------
\* findClosest
\* ------------------------------------------------------------------------

\* the body of an event: JSON text that does not parse ("invalid"), no body
\* ("empty"), the JSON text null ("null"), or an object
Body(kind, tp, tps, isArr) ==
  [kind |-> kind, ticket_postal |-> tp, tech_postals |-> tps, isArray |-> isArr]

\* no result yet
noResult ==
  [statusCode |-> 0, ok |-> FALSE, error |-> "", hasArrays |-> FALSE,
   distances_km |-> <<>>, durations_min |-> <<>>]

\* no invocation of handler is running
HandlerIdle ==
  /\ event = [httpMethod |-> "", body |-> Body("empty", <<>>, <<>>, FALSE)]
  /\ hpc = "idle"
  /\ ticket = <<>>
  /\ tech = <<>>
  /\ src = null
  /\ destsRaw = <<>>
  /\ pending = {}
  /\ result = noResult
  /\ matrixRequests = 0
  /\ srcOutcome = "none"
  /\ destOutcome = <<>>

\* the gateway before its first invocation: the module just loaded
GatewayLoaded == GEO_CACHE = <<>> /\ HandlerIdle

\* no function is called on its own
NoCall == input = [fn |-> "none"] /\ output = [fn |-> "none"]

\* no Response yet
noResponse ==
  [status |-> 0, ok |-> FALSE, error |-> "", hasArrays |-> FALSE,
   distances_km |-> <<>>, durations_min |-> <<>>]

\* no matrix request yet
noPayload == [sent |-> FALSE, locations |-> <<>>]

\* no request to /canada/ors_matrix is being served
EdgeIdle ==
  /\ body = [job |-> "none", isArray |-> FALSE, tech |-> <<>>]
  /\ epc = "idle"
  /\ techList = <<>>
  /\ geoCache = <<>>
  /\ cursor = 0
  /\ destinations = <<>>
  /\ idxMap = <<>>
  /\ payload = noPayload
  /\ edgeResponse = noResponse
  /\ geocodeCalls = <<>>

\* the edge function deployed with its key, serving nothing
EdgeLoaded == ORS_API_KEY = "key" /\ EdgeIdle

\* a call of geocodePostalCA that has not begun
geoIdle == [at |-> "idle", key |-> <<>>, data |-> null, value |-> null]

\* no call of geocodePostalCA is in progress beside the handler's own
NoGeocode == geoCalls = [c \in 1..MaxCalls |-> geoIdle] /\ served = {}

\* the tables of the defaults of lines 11-21 (no secret overrides them);
\* USA_W2_TABLE is optional and not set
TECH_TABLE == "ars_technician"
ZIP_TABLE == "zipdb_v2"
FLEX_TABLE == "usa_tier_2_flex_tech"
CA_W2_TABLE == "canada_w2"
USA_W2_TABLE == ""

\* the tables of the project's schema: those of the function, the optional
\* postal table, and one the function is not configured for
DbTables == { TECH_TABLE, ZIP_TABLE, FLEX_TABLE, CA_W2_TABLE, "ca_postal", "billing" }

\* a table that does not exist
noTable == [exists |-> FALSE, cols |-> {}, rows |-> {}]

\* the database before any upload: canada_w2 is yet to be created
DB0 ==
  [t \in DbTables |->
     IF t = CA_W2_TABLE THEN noTable
     ELSE [exists |-> TRUE, cols |-> { "id" }, rows |-> { << t, 1 >> }]]

noRequest ==
  [method |-> "", path |-> <<>>, token |-> "", mode |-> "", table |-> "", file |-> "none"]

noApiResponse == [status |-> 0, ok |-> FALSE, error |-> "", table |-> "", rows |-> {}]

\* no request is being served
ApiIdle ==
  /\ req = noRequest
  /\ apc = "idle"
  /\ sheetCursor = 0
  /\ apiResponse = noApiResponse
  /\ dbOps = <<>>

\* the edge function deployed with its secrets, serving nothing
ApiLoaded ==
  /\ SUPABASE_URL = "url" /\ SERVICE_ROLE = "role"
  /\ ADMIN_TOKEN = "secret"
  /\ CA_POSTAL_TABLE = ""
  /\ db = DB0
  /\ ApiIdle

\* no call of findClosest made and no timer set
NoSession ==
  /\ runs = <<>>
  /\ tmo = 0
  /\ timers = {}
  /\ timersSet = 0

\* the page before the first click
PageLoaded ==
  /\ pc = "idle"
  /\ p = <<>>
  /\ ticketLL = null
  /\ rows = <<>>
  /\ scored = <<>>
  /\ candidates = <<>>
  /\ usedORS = FALSE
  /\ best = 0
  /\ listToRender = <<>>
  /\ status = "Ready"
  /\ resTitle = 0
  /\ resMeta = "-"
  /\ kmEl = NULL
  /\ driveKmEl = [tag |-> "", value |-> NULL]
  /\ kpiRow = "none"
  /\ topList = <<>>
  /\ topListDisplay = "none"
  /\ trace = <<>>
  /\ gatewayCalls = 0
  /\ request = [ticket_postal |-> <<>>, tech_postals |-> <<>>]
  /\ resolveCalls = 0
  /\ response = [kind |-> "none", distances_km |-> <<>>, durations_min |-> <<>>]

Init ==
  /\ TECHS \in Rosters
  /\ POSTAL_PROV \in PostalProvMaps
  /\ POSTAL_OVERRIDE = buildPostalOverride(TECHS)
  /\ ORS_ENDPOINT \in { "", "/api/canada/ors_matrix" }
  /\ \E in \in TicketInputs : postalInput = in[1] /\ ticketText = in[2]
  /\ driveFactor \in DriveFactors
  /\ PageLoaded
  /\ ORS_KEY = "key"
  /\ GatewayLoaded
  /\ NoCall
  /\ EdgeLoaded
  /\ NoGeocode
  /\ ApiLoaded
  /\ NoSession

\* Math.max(0.8, Math.min(5, parseFloat(driveFactor.value || '1.25') || 1.25))
baseFactor == clamp(IF driveFactor = 0 THEN 125 ELSE driveFactor, 80, 500)

\* a findClosest that reads the ticket text whatever the field holds
consultsTextAlways == TRUE

\* line 831: if (!p), the field did not normalize and the text is read
consultsText == normalizePostal(postalInput) = <<>>

\* the ticket postal of lines 830-834: the field, else the text
ticketPostal ==
  IF ~consultsText THEN normalizePostal(postalInput)
  ELSE extractPostalFromText(ticketText)

\* the field after lines 830-834
postalInputAfter ==
  IF consultsText /\ extractPostalFromText(ticketText) # <<>>
  THEN formatPostal(extractPostalFromText(ticketText))
  ELSE postalInput

\* the estimate taken from the wrong end of the ranking
estimateBestLast(sc) == sc[Len(sc)]

\* line 937: best2 = scored[0]
estimateBest(sc) == sc[1]

\* lines 936-964: the estimate shown for the ranking sc over the objects rs
ShowEstimate(sc, rs, tLL) ==
  LET best2 == rs[estimateBest(sc)]
  IN  /\ status' = "Closest tech found (estimate)."
      /\ resTitle' = TECHS[best2.tech].tech_id
      /\ resMeta' = "estimate"
      /\ kmEl' = best2.km
      /\ driveKmEl' = [tag |-> "factor", value |-> effectiveDriveFactor(baseFactor, tLL, best2.ll)]
      /\ kpiRow' = "flex"
      /\ topList' = renderTopList(sc, FALSE, rs)
      /\ topListDisplay' = IF Len(sc) > 0 THEN "grid" ELSE "none"

\* lines 909-934: the driving result shown for best b and the list ls
ShowDriving(b, ls, rs) ==
  /\ status' = "Closest tech found (ORS driving)."
  /\ resTitle' = TECHS[rs[b].tech].tech_id
  /\ resMeta' = "ORS driving"
  /\ kmEl' = rs[b].km
  /\ driveKmEl' = [tag |-> "ORS", value |-> rs[b].driveKm]
  /\ kpiRow' = "flex"
  /\ topList' = renderTopList(ls, TRUE, rs)
  /\ topListDisplay' = IF Len(ls) > 0 THEN "grid" ELSE "none"

\* scored after scored.sort((a,b)=>a.km-b.km): references into rs in rank order
sortedScored(rs) ==
  sortSeq([i \in 1..Len(rs) |-> i], LAMBDA a, b : cmpKm(rs[a], rs[b]))

\* lines 836-843: no postal in the field or the text
FailNoPostal ==
  /\ pc = "idle"
  /\ UNCHANGED << gwVars, callVars, edgeVars, poolVars, extVars >>
  /\ ticketPostal = <<>>
  /\ pc' = "failed"
  /\ status' = "No valid Canadian postal code found."
  /\ resTitle' = 0
  /\ resMeta' = "Paste ticket or enter postal code."
  /\ kpiRow' = "none"
  /\ topListDisplay' = "none"
  /\ trace' = << "NormalizingPostal", "Failed" >>
  /\ UNCHANGED << pageVars, p, ticketLL, rows, scored, candidates, usedORS, best,
                  listToRender, kmEl, driveKmEl, topList, gatewayCalls, request,
                  resolveCalls,
                  response >>

\* lines 845-849: the ticket postal resolves at no tier
FailTicket ==
  /\ pc = "idle"
  /\ UNCHANGED << gwVars, callVars, edgeVars, poolVars, extVars >>
  /\ ticketPostal # <<>>
  /\ latLonForPostal(ticketPostal, "", "") = null
  /\ pc' = "failed"
  /\ p' = ticketPostal
  /\ postalInput' = postalInputAfter
  /\ status' = "Unable to resolve location for ticket postal code."
  /\ resolveCalls' = 1
  /\ trace' = << "NormalizingPostal", "ResolvingTicket", "Failed" >>
  /\ UNCHANGED << TECHS, POSTAL_PROV, POSTAL_OVERRIDE, ORS_ENDPOINT, ticketText, driveFactor,
                  ticketLL, rows, scored, candidates, usedORS, best, listToRender,
                  resTitle, resMeta, kmEl, driveKmEl, kpiRow, topList, topListDisplay,
                  gatewayCalls, request, response >>

\* lines 851-863: no roster entry resolves
FailNoTechs ==
  /\ pc = "idle"
  /\ UNCHANGED << gwVars, callVars, edgeVars, poolVars, extVars >>
  /\ ticketPostal # <<>>
  /\ latLonForPostal(ticketPostal, "", "") # null
  /\ scoreRoster(latLonForPostal(ticketPostal, "", "")) = <<>>
  /\ pc' = "failed"
  /\ p' = ticketPostal
  /\ postalInput' = postalInputAfter
  /\ ticketLL' = latLonForPostal(ticketPostal, "", "")
  /\ status' = "No tech locations available."
  /\ resolveCalls' = 1 + Len(TECHS)
  /\ trace' = << "NormalizingPostal", "ResolvingTicket", "ScoringRoster", "Failed" >>
  /\ UNCHANGED << TECHS, POSTAL_PROV, POSTAL_OVERRIDE, ORS_ENDPOINT, ticketText, driveFactor,
                  rows, scored, candidates, usedORS, best, listToRender,
                  resTitle, resMeta, kmEl, driveKmEl, kpiRow, topList, topListDisplay,
                  gatewayCalls, request, response >>

\* the gateway tried before the roster is known to have a resolved technician
routingAttemptedEarly(rs) == ORS_ENDPOINT # ""

\* lines 860-872: the gateway is tried past the return of line 863, when
\* ORS_ENDPOINT is set
routingAttempted(rs) == rs # <<>> /\ ORS_ENDPOINT # ""

\* every scored technician taken as a candidate
candidatesAll(sc) == sc

\* line 873: candidates = scored.slice(0, 25)
candidatesOf(sc) == slice0(sc, TOP_K)

\* lines 876-879: the body posted for the candidates cands over the objects rs
requestBody(cands, rs) ==
  [ticket_postal |-> ticketPostal,
   tech_postals |-> [i \in 1..Len(cands) |-> TECHS[rs[cands[i]].tech].postal]]

\* a postJson that sends its request a second time
postJsonTwice(calls) == calls + 2

\* lines 744-749 and 876: postJson sends one fetch to the gateway
postJson(calls) == calls + 1

\* lines 826-879 with ORS_ENDPOINT set: up to the await of postJson
StartRouting ==
  /\ pc = "idle"
  /\ UNCHANGED << gwVars, callVars, edgeVars, poolVars, extVars >>
  /\ ticketPostal # <<>>
  /\ latLonForPostal(ticketPostal, "", "") # null
  /\ \E tLL \in { latLonForPostal(ticketPostal, "", "") } :
     \E rs \in { scoreRoster(tLL) } :
     \E sc \in { sortedScored(rs) } :
         /\ routingAttempted(rs)
         /\ pc' = "awaiting"
         /\ p' = ticketPostal
         /\ postalInput' = postalInputAfter
         /\ ticketLL' = tLL
         /\ rows' = rs
         /\ scored' = sc
         /\ candidates' = candidatesOf(sc)
         /\ request' = requestBody(candidatesOf(sc), rs)
         /\ listToRender' = sc
         /\ status' = "Calculating driving distance (ORS)..."
         /\ gatewayCalls' = postJson(gatewayCalls)
         /\ resolveCalls' = 1 + Len(TECHS)
         /\ trace' = << "NormalizingPostal", "ResolvingTicket", "ScoringRoster",
                        "RoutingAttempt" >>
         /\ UNCHANGED << TECHS, POSTAL_PROV, POSTAL_OVERRIDE, ORS_ENDPOINT, ticketText, driveFactor,
                         usedORS, best, resTitle, resMeta, kmEl, driveKmEl, kpiRow,
                         topList, topListDisplay, response >>

\* lines 826-871 and 936-964 with ORS_ENDPOINT empty: the estimate, no gateway
EstimateDirect ==
  /\ pc = "idle"
  /\ UNCHANGED << gwVars, callVars, edgeVars, poolVars, extVars >>
  /\ ticketPostal # <<>>
  /\ latLonForPostal(ticketPostal, "", "") # null
  /\ \E tLL \in { latLonForPostal(ticketPostal, "", "") } :
     \E rs \in { scoreRoster(tLL) } :
     \E sc \in { sortedScored(rs) } :
         /\ rs # <<>>
         /\ ~routingAttempted(rs)
         /\ pc' = "done"
         /\ p' = ticketPostal
         /\ postalInput' = postalInputAfter
         /\ ticketLL' = tLL
         /\ rows' = rs
         /\ scored' = sc
         /\ listToRender' = sc
         /\ ShowEstimate(sc, rs, tLL)
         /\ resolveCalls' = 1 + Len(TECHS)
         /\ trace' = << "NormalizingPostal", "ResolvingTicket", "ScoringRoster",
                        "EstimateFallback", "Ranked", "Done" >>
         /\ UNCHANGED << TECHS, POSTAL_PROV, POSTAL_OVERRIDE, ORS_ENDPOINT, ticketText, driveFactor,
                         candidates, usedORS, best, gatewayCalls, request, response >>

\* postJson threw, or line 881 threw: the catch of line 903 runs
gatewayThrows(resp) == resp.kind # "ok"

\* j.distances_km?.[i] as lines 884-887 read it: null past the end of the array
figureAt(arr, i) == IF i <= Len(arr) THEN arr[i] ELSE NULL

\* lines 883-889: the driving figures written into the candidates' objects
applyDriving(rs, cands, resp) ==
  [r \in 1..Len(rs) |->
     IF \E i \in 1..Len(cands) : cands[i] = r
     THEN LET i == CHOOSE k \in 1..Len(cands) : cands[k] = r
          IN  [rs[r] EXCEPT !.driveKm = figureAt(resp.distances_km, i),
                            !.driveMin = figureAt(resp.durations_min, i)]
     ELSE rs[r]]

\* a sort that is not stable: candidates that compare equal come out in the
\* reverse of the order they had
sortedCandidatesUnstable(cands, rs) ==
  sortSeq([i \in 1..Len(cands) |-> cands[Len(cands) + 1 - i]],
          LAMBDA a, b : cmpDrive(rs[a], rs[b]))

\* lines 891-898: candidates.sort by driving duration, then driving distance
sortedCandidates(cands, rs) ==
  sortSeq(cands, LAMBDA a, b : cmpDrive(rs[a], rs[b]))

\* the driving branch taken without looking at the best entry's distance
showsDrivingAnyBest(used, b, rs) == used /\ b # 0

\* line 909: the driving branch is taken
showsDriving(used, b, rs) == used /\ b # 0 /\ rs[b].driveKm # NULL

\* the call without the catch of line 903: findClosest rejects where it awaits
ResumeUncaught(resp) ==
  /\ gatewayThrows(resp)
  /\ pc' = "rejected"
  /\ UNCHANGED << rows, candidates, best, listToRender, usedORS, panelVars, trace >>

\* lines 903-906 and 936-964: postJson or line 881 threw, the catch runs and
\* the estimate is shown
ResumeThrown(resp) ==
  /\ gatewayThrows(resp)
  /\ pc' = "done"
  /\ usedORS' = FALSE
  /\ ShowEstimate(scored, rows, ticketLL)
  /\ trace' = trace \o << "EstimateFallback", "Ranked", "Done" >>
  /\ UNCHANGED << rows, candidates, best, listToRender >>

\* lines 883-902 and 909-964: the body has ok true
ResumeOk(resp) ==
  /\ ~gatewayThrows(resp)
  /\ \E rs \in { applyDriving(rows, candidates, resp) } :
     \E cs \in { sortedCandidates(candidates, rs) } :
     \E b \in { findBest(cs, rs) } :
       /\ pc' = "done"
       /\ rows' = rs
       /\ candidates' = cs
       /\ best' = b
       /\ listToRender' = cs
       /\ usedORS' = TRUE
       /\ IF showsDriving(TRUE, b, rs)
          THEN /\ ShowDriving(b, cs, rs)
               /\ trace' = trace \o << "Ranked", "Done" >>
          ELSE /\ ShowEstimate(scored, rs, ticketLL)
               /\ trace' = trace \o << "EstimateFallback", "Ranked", "Done" >>

\* lines 880-965: from the return of postJson to the end of findClosest
FindClosestResume ==
  /\ pc = "awaiting"
  /\ UNCHANGED << gwVars, callVars, edgeVars, poolVars, extVars >>
  /\ response' \in Responses(Len(candidates))
  /\ ResumeThrown(response') \/ ResumeOk(response')
  /\ UNCHANGED << pageVars, p, ticketLL, scored, gatewayCalls, request, resolveCalls >>

\* ------------------------------------------------------------------------
\* Routing gateway (Netlify function "ORS Matrix")
\* ------------------------------------------------------------------------

\* the slice(0, 40) of line 115
MAX_DESTS == 40

\* resp(statusCode, bodyObj), without the constant headers
resp(statusCode, bodyObj) ==
  [statusCode |-> statusCode, ok |-> bodyObj.ok, error |-> bodyObj.error,
   hasArrays |-> bodyObj.hasArrays,
   distances_km |-> bodyObj.distances_km, durations_min |-> bodyObj.durations_min]

\* the body objects { ok: false, error } and { ok: true }
okFalse(err) ==
  [ok |-> FALSE, error |-> err, hasArrays |-> FALSE, distances_km |-> <<>>, durations_min |-> <<>>]
okTrue ==
  [ok |-> TRUE, error |-> "", hasArrays |-> FALSE, distances_km |-> <<>>, durations_min |-> <<>>]

\* String(x || "").toUpperCase().replace(/[^A-Z0-9]/g, "").slice(0, 6)
normPostal(x) == slice0(stripNonAlnum(toUpperCase(x)), 6)

\* line 115: tech_postals.map(normPostal).filter(Boolean).slice(0, 40)
techKeys(tech_postals) ==
  slice0(SelectSeq([i \in 1..Len(tech_postals) |-> normPostal(tech_postals[i])],
                   LAMBDA k : k # <<>>),
         MAX_DESTS)

\* the coordinate the geocoder has for a key it matches: features[0].geometry.coordinates
GEO_POINT ==
  (<< "K","1","A","0","B","1" >> :> [lon |-> -756972, lat |-> 454215]) @@
  (<< "M","5","V","2","T","6" >> :> [lon |-> -793948, lat |-> 436446]) @@
  (<< "T","2","P","1","J","9" >> :> [lon |-> -1140719, lat |-> 510447])

\* the row the matrix service has from the origin to a destination: km and seconds
ROUTE ==
  ([lon |-> -793948, lat |-> 436446] :> [km |-> 450, sec |-> 16200]) @@
  ([lon |-> -1140719, lat |-> 510447] :> [km |-> 3300, sec |-> 118800]) @@
  ([lon |-> -756972, lat |-> 454215] :> [km |-> 0, sec |-> 0])

\* how a geocode fetch can end: a feature, no feature, a non-2xx status, or the
\* fetch itself rejecting
GeocodeOutcomes == { "match", "no match", "http error", "network error" }

\* lines 49-54: geocodePostalCA throws
geocodeThrows(outcome) == outcome \in { "http error", "network error" }

\* lines 128-141: past Promise.all, with every destination's result in dr
afterDests(dr) ==
  IF \A i \in 1..Len(dr) : dr[i] = null
  THEN [hpc |-> "returned", result |-> resp(200, okFalse("Could not geocode any tech_postals"))]
  ELSE [hpc |-> "matrix", result |-> noResult]

\* line 125: tech.map(geocodePostalCA) runs each call up to its fetch; a cached
\* key is answered from the cache, every other key is fetched
startDests(cache, tk) ==
  Let([i \in 1..Len(tk) |-> IF tk[i] \in DOMAIN cache THEN cache[tk[i]] ELSE null], LAMBDA dr :
  Let({ i \in 1..Len(tk) : tk[i] \notin DOMAIN cache }, LAMBDA pend :
      IF pend = {}
      THEN Let(afterDests(dr), LAMBDA k :
               [hpc |-> k.hpc, result |-> k.result, destsRaw |-> dr, pending |-> {}])
      ELSE [hpc |-> "dests", result |-> noResult, destsRaw |-> dr, pending |-> pend]))

\* an origin taken for geocoded whatever geocodePostalCA returned
afterOriginUnchecked(srcLL, cache, tk) == startDests(cache, tk)

\* lines 123-125: past the origin's geocode
afterOrigin(srcLL, cache, tk) ==
  IF srcLL = null
  THEN [hpc |-> "returned", result |-> resp(200, okFalse("Could not geocode ticket_postal")),
        destsRaw |-> <<>>, pending |-> {}]
  ELSE startDests(cache, tk)

\* lines 99-122: handler up to its first await
handlerEntry(ev, key, cache) ==
  Let(normPostal(ev.body.ticket_postal), LAMBDA tkt :
  Let(IF ev.body.isArray THEN techKeys(ev.body.tech_postals) ELSE <<>>, LAMBDA tk :
      IF ev.httpMethod = "OPTIONS"
      THEN [hpc |-> "returned", result |-> resp(200, okTrue)]
      ELSE IF ev.httpMethod # "POST"
      THEN [hpc |-> "returned", result |-> resp(405, okFalse("Method not allowed"))]
      ELSE IF key = ""
      THEN [hpc |-> "returned",
            result |-> resp(500, okFalse("Missing ORS_API_KEY environment variable"))]
      ELSE IF ev.body.kind = "invalid"
      THEN [hpc |-> "returned", result |-> resp(400, okFalse("Invalid JSON body"))]
      ELSE IF ev.body.kind = "null"
      THEN [hpc |-> "threw", result |-> noResult]
      ELSE IF ev.body.kind = "empty" \/ tkt = <<>> \/ tk = <<>>
      THEN [hpc |-> "returned",
            result |-> resp(400, okFalse("ticket_postal and tech_postals are required"))]
      ELSE [hpc |-> "started", result |-> noResult, ticket |-> tkt, tech |-> tk]))

\* the bodies handler is invoked with
TicketPostals == { << "k","1","a"," ","0","b","1" >>, <<>> }
TechPostals == { << "m","5","v"," ","2","t","6" >>, << "T","2","P","-","1","J","9" >>, <<>> }
TechPostalLists == UNION { [1..n -> TechPostals] : n \in 0..MaxDests }
Events ==
  { [httpMethod |-> m, body |-> Body("empty", <<>>, <<>>, FALSE)] : m \in { "OPTIONS", "GET", "POST" } }
  \cup { [httpMethod |-> "POST", body |-> Body(k, <<>>, <<>>, FALSE)] : k \in { "invalid", "null" } }
  \cup { [httpMethod |-> "POST", body |-> Body("object", tp, <<>>, FALSE)] : tp \in TicketPostals }
  \cup { [httpMethod |-> "POST", body |-> Body("object", tp, tps, TRUE)] :
           tp \in TicketPostals, tps \in TechPostalLists }

\* a tech_postals of n entries naming the two destinations in turn
cycledPostals(n) ==
  [i \in 1..n |-> IF i % 2 = 1 THEN << "m","5","v"," ","2","t","6" >>
                               ELSE << "T","2","P","-","1","J","9" >>]

\* bodies with 40 and with 41 destinations
LongEvents ==
  { [httpMethod |-> "POST",
     body |-> Body("object", << "k","1","a"," ","0","b","1" >>, cycledPostals(n), TRUE)] :
    n \in { 40, 41 } }

\* the events sent to a function whose cache is cache: the long lists are
\* sent to a warm function, which has every key they name in its cache
EventsAt(cache) ==
  IF DOMAIN cache = DOMAIN GEO_POINT THEN Events \cup LongEvents ELSE Events

\* handler(event), from the call to its first await or its return
InvokeWith(ev) ==
  /\ hpc = "idle"
  /\ \E h \in { handlerEntry(ev, ORS_KEY, GEO_CACHE) } :
       /\ event' = ev
       /\ srcOutcome' = "none"
       /\ IF h.hpc # "started"
          THEN /\ hpc' = h.hpc
               /\ result' = h.result
               /\ ticket' = <<>> /\ tech' = <<>> /\ src' = null /\ destsRaw' = <<>>
               /\ pending' = {} /\ matrixRequests' = 0 /\ destOutcome' = <<>>
          ELSE /\ ticket' = h.ticket
               /\ tech' = h.tech
               /\ IF h.ticket \in DOMAIN GEO_CACHE
                  THEN \E k \in { afterOrigin(GEO_CACHE[h.ticket], GEO_CACHE, h.tech) } :
                         /\ src' = GEO_CACHE[h.ticket]
                         /\ hpc' = k.hpc
                         /\ result' = k.result
                         /\ destsRaw' = k.destsRaw
                         /\ pending' = k.pending
                         /\ matrixRequests' = IF k.hpc = "matrix" THEN 1 ELSE 0
                         /\ destOutcome' = [i \in 1..Len(k.destsRaw) |->
                                              IF i \in k.pending THEN "pending" ELSE "cached"]
                  ELSE /\ hpc' = "origin"
                       /\ result' = noResult
                       /\ src' = null /\ destsRaw' = <<>> /\ pending' = {}
                       /\ matrixRequests' = 0 /\ destOutcome' = <<>>
  /\ UNCHANGED << ORS_KEY, GEO_CACHE >>
  /\ UNCHANGED << pageVars, runVars, panelVars, obsVars, callVars, edgeVars, poolVars, extVars >>

\* handler is invoked with any of the events
Invoke == \E ev \in EventsAt(GEO_CACHE) : InvokeWith(ev)

\* lines 49-63 and 122-125: the origin's geocode fetch ends
OriginGeocoded ==
  /\ hpc = "origin"
  /\ \E o \in GeocodeOutcomes :
       /\ srcOutcome' = o
       /\ IF geocodeThrows(o)
          THEN /\ hpc' = "returned"
               /\ result' = resp(200, okFalse(IF o = "http error" THEN "ORS geocode failed"
                                                                  ELSE "fetch failed"))
               /\ UNCHANGED << GEO_CACHE, src, destsRaw, pending, matrixRequests, destOutcome >>
          ELSE \E ll \in { IF o = "match" THEN GEO_POINT[ticket] ELSE null } :
               \E cache \in { IF o = "match" THEN (ticket :> ll) @@ GEO_CACHE ELSE GEO_CACHE } :
               \E k \in { afterOrigin(ll, cache, tech) } :
                 /\ GEO_CACHE' = cache
                 /\ src' = ll
                 /\ hpc' = k.hpc
                 /\ result' = k.result
                 /\ destsRaw' = k.destsRaw
                 /\ pending' = k.pending
                 /\ matrixRequests' = IF k.hpc = "matrix" THEN 1 ELSE 0
                 /\ destOutcome' = [i \in 1..Len(k.destsRaw) |->
                                      IF i \in k.pending THEN "pending" ELSE "cached"]
  /\ UNCHANGED << ORS_KEY, event, ticket, tech >>
  /\ UNCHANGED << pageVars, runVars, panelVars, obsVars, callVars, edgeVars, poolVars, extVars >>

\* lines 49-63 and 125-141: one destination's geocode fetch ends; a rejection
\* rejects Promise.all at once, the other fetches still end later
DestGeocoded ==
  /\ pending # {}
  /\ \E i \in pending : \E o \in GeocodeOutcomes :
       /\ pending' = pending \ {i}
       /\ destOutcome' = [destOutcome EXCEPT ![i] = o]
       /\ GEO_CACHE' = IF o = "match" THEN (tech[i] :> GEO_POINT[tech[i]]) @@ GEO_CACHE
                       ELSE GEO_CACHE
       /\ IF hpc # "dests"
          THEN UNCHANGED << hpc, result, destsRaw, matrixRequests >>
          ELSE IF geocodeThrows(o)
          THEN /\ hpc' = "returned"
               /\ result' = resp(200, okFalse(IF o = "http error" THEN "ORS geocode failed"
                                                                  ELSE "fetch failed"))
               /\ UNCHANGED << destsRaw, matrixRequests >>
          ELSE \E dr \in { IF o = "match" THEN [destsRaw EXCEPT ![i] = GEO_POINT[tech[i]]]
                                           ELSE destsRaw } :
                 /\ destsRaw' = dr
                 /\ IF pending \ {i} # {}
                    THEN UNCHANGED << hpc, result, matrixRequests >>
                    ELSE \E k \in { afterDests(dr) } :
                           /\ hpc' = k.hpc
                           /\ result' = k.result
                           /\ matrixRequests' = IF k.hpc = "matrix" THEN 1 ELSE 0
  /\ UNCHANGED << ORS_KEY, event, ticket, tech, src, srcOutcome >>
  /\ UNCHANGED << pageVars, runVars, panelVars, obsVars, callVars, edgeVars, poolVars, extVars >>

\* lines 128-135: the indexes of the geocoded destinations, in order
validIdx(dr) == SelectSeq([i \in 1..Len(dr) |-> i], LAMBDA i : dr[i] # null)

\* the rows of the matrix returned as they came, one entry per geocoded
\* destination, not expanded back over tech
expandRowsCompact(n, vi, distances, durations) ==
  resp(200,
       [ok |-> TRUE, error |-> "", hasArrays |-> TRUE,
        distances_km |-> distances,
        durations_min |-> [j \in 1..Len(durations) |->
                             IF durations[j] = NULL THEN NULL ELSE durations[j] \div 60]])

\* lines 143-153: the rows of the matrix expanded back over tech; NULL in a row
\* is a value that is not a number
expandRows(n, vi, distances, durations) ==
  resp(200,
       [ok |-> TRUE, error |-> "", hasArrays |-> TRUE,
        distances_km |->
          [i \in 1..n |-> IF \E j \in 1..Len(vi) : vi[j] = i
                          THEN distances[CHOOSE j \in 1..Len(vi) : vi[j] = i]
                          ELSE NULL],
        durations_min |->
          [i \in 1..n |-> IF \E j \in 1..Len(vi) : vi[j] = i
                          THEN Let(durations[CHOOSE j \in 1..Len(vi) : vi[j] = i], LAMBDA t :
                                   IF t = NULL THEN NULL ELSE t \div 60)
                          ELSE NULL]])

\* the entries a row of the matrix may lack: any for a short list
MissingSets(n) ==
  IF n <= MaxDests THEN SUBSET (1..n) ELSE { {}, {1}, 1..n }

\* lines 77-95 and 141-155: the matrix request ends: a non-2xx status or a
\* rejected fetch, or rows in which any entry may be missing
MatrixReturned ==
  /\ hpc = "matrix"
  /\ hpc' = "returned"
  /\ \/ \E e \in { "ORS matrix failed", "fetch failed" } : result' = resp(200, okFalse(e))
     \/ \E vi \in { validIdx(destsRaw) } :
        \E nd \in MissingSets(Len(vi)) : \E nt \in MissingSets(Len(vi)) :
          result' = expandRows(Len(tech), vi,
                      [j \in 1..Len(vi) |-> IF j \in nd THEN NULL ELSE ROUTE[destsRaw[vi[j]]].km],
                      [j \in 1..Len(vi) |-> IF j \in nt THEN NULL ELSE ROUTE[destsRaw[vi[j]]].sec])
  /\ UNCHANGED << ORS_KEY, GEO_CACHE, event, ticket, tech, src, destsRaw, pending,
                  matrixRequests, srcOutcome, destOutcome >>
  /\ UNCHANGED << pageVars, runVars, panelVars, obsVars, callVars, edgeVars, poolVars, extVars >>

\* lines 98-157: the promise handler returned is settled and the invocation is
\* over: its locals are gone, fetches still in flight are abandoned, and only
\* the module's GEO_CACHE stays for the next (warm) invocation
HandlerSettled ==
  /\ hpc \in { "returned", "threw" }
  /\ hpc' = "idle"
  /\ event' = [httpMethod |-> "", body |-> Body("empty", <<>>, <<>>, FALSE)]
  /\ ticket' = <<>>
  /\ tech' = <<>>
  /\ src' = null
  /\ destsRaw' = <<>>
  /\ pending' = {}
  /\ result' = noResult
  /\ matrixRequests' = 0
  /\ srcOutcome' = "none"
  /\ destOutcome' = <<>>
  /\ UNCHANGED << ORS_KEY, GEO_CACHE >>
  /\ UNCHANGED << pageVars, runVars, panelVars, obsVars, callVars, edgeVars, poolVars, extVars >>

vars == << pageVars, runVars, panelVars, obsVars, gwVars, callVars, edgeVars, poolVars, extVars >>

Next ==
  \/ FailNoPostal
  \/ FailTicket
  \/ FailNoTechs
  \/ StartRouting
  \/ EstimateDirect
  \/ FindClosestResume

Spec == Init /\ [][Next]_vars

\* the behaviours in which an awaited gateway request returns or errors
LiveSpec == Spec /\ WF_vars(FindClosestResume)

\* the gateway alone: a deployed function with or without its key, the page idle
GatewayInit ==
  /\ TECHS = <<>>
  /\ POSTAL_PROV = <<>>
  /\ POSTAL_OVERRIDE = buildPostalOverride(<<>>)
  /\ ORS_ENDPOINT = "/api/canada/ors_matrix"
  /\ postalInput = <<>>
  /\ ticketText = <<>>
  /\ driveFactor = 0
  /\ PageLoaded
  /\ ORS_KEY \in { "", "key" }
  /\ GatewayLoaded
  /\ NoCall
  /\ EdgeLoaded
  /\ NoGeocode
  /\ ApiLoaded
  /\ NoSession

GatewayNext ==
  \/ Invoke
  \/ OriginGeocoded
  \/ DestGeocoded
  \/ MatrixReturned
  \/ HandlerSettled

GatewaySpec == GatewayInit /\ [][GatewayNext]_vars

\* ------------------------------------------------------------------------
\* Concurrent invocations of handler sharing GEO_CACHE: their calls of
\* geocodePostalCA, interleaved at the awaits
\* ------------------------------------------------------------------------

\* the postals the invocations geocode
PoolPostals == { << "m","5","v"," ","2","t","6" >>, << "M","5","V","2","T","6" >>,
                 << "T","2","P","-","1","J","9" >>, << "-" >> }

\* the coordinates the geocoder may answer for a key: its point, or the
\* point as a later revision of its data has it
GeoAnswers(key) ==
  { GEO_POINT[key], [GEO_POINT[key] EXCEPT !.lon = @ + 1] }

\* a cache that stores whatever the response held, a missing feature included
cacheSetAny(cache, key, coords) == (key :> coords) @@ cache

\* lines 58-61: GEO_CACHE after the response is read: set for an array of
\* two numbers, left alone otherwise
cacheSet(cache, key, coords) ==
  IF coords = null THEN cache ELSE (key :> coords) @@ cache

\* lines 38-49: call c begins, up to its return or its fetch
GeocodeCalled(c) ==
  /\ geoCalls[c].at \in { "idle", "returned", "threw" }
  /\ \E postal \in PoolPostals : \E key \in { normPostal(postal) } :
       geoCalls' = [geoCalls EXCEPT ![c] =
         IF key = <<>> THEN [at |-> "returned", key |-> key, data |-> null, value |-> null]
         ELSE IF key \in DOMAIN GEO_CACHE
         THEN [at |-> "returned", key |-> key, data |-> null, value |-> GEO_CACHE[key]]
         ELSE [at |-> "fetch", key |-> key, data |-> null, value |-> null]]
  /\ UNCHANGED << GEO_CACHE, served >>

\* lines 49-55: the fetch of call c ends: it rejects or has a non-2xx status
\* (the call throws), or it has a body with or without a feature
GeocodeFetched(c) ==
  /\ geoCalls[c].at = "fetch"
  /\ \/ /\ geoCalls' = [geoCalls EXCEPT ![c].at = "threw"]
        /\ UNCHANGED served
     \/ /\ geoCalls' = [geoCalls EXCEPT ![c].at = "json"]
        /\ UNCHANGED served
     \/ \E ll \in GeoAnswers(geoCalls[c].key) :
          /\ geoCalls' = [geoCalls EXCEPT ![c].at = "json", ![c].data = ll]
          /\ served' = served \cup { << geoCalls[c].key, ll >> }
  /\ UNCHANGED GEO_CACHE

\* lines 55-62: r.json() of call c ends: it rejects (the call throws), or the
\* coordinates are read, cached and returned
GeocodeParsed(c) ==
  /\ geoCalls[c].at = "json"
  /\ \/ /\ geoCalls' = [geoCalls EXCEPT ![c].at = "threw", ![c].data = null]
        /\ UNCHANGED GEO_CACHE
     \/ /\ GEO_CACHE' = cacheSet(GEO_CACHE, geoCalls[c].key, geoCalls[c].data)
        /\ geoCalls' = [geoCalls EXCEPT ![c].at = "returned", ![c].value = geoCalls[c].data]
  /\ UNCHANGED served

\* the function with a key, its invocations geocoding
SharedCacheInit ==
  /\ TECHS = <<>>
  /\ POSTAL_PROV = <<>>
  /\ POSTAL_OVERRIDE = buildPostalOverride(<<>>)
  /\ ORS_ENDPOINT = "/api/canada/ors_matrix"
  /\ postalInput = <<>>
  /\ ticketText = <<>>
  /\ driveFactor = 0
  /\ PageLoaded
  /\ ORS_KEY = "key"
  /\ GatewayLoaded
  /\ NoCall
  /\ EdgeLoaded
  /\ NoGeocode
  /\ ApiLoaded
  /\ NoSession

SharedCacheNext ==
  /\ \E c \in 1..MaxCalls :
       \/ GeocodeCalled(c)
       \/ GeocodeFetched(c)
       \/ GeocodeParsed(c)
  /\ UNCHANGED << ORS_KEY, event, hpc, ticket, tech, src, destsRaw, pending, result,
                  matrixRequests, srcOutcome, destOutcome >>
  /\ UNCHANGED << pageVars, runVars, panelVars, obsVars, callVars, edgeVars, extVars >>

SharedCacheSpec == SharedCacheInit /\ [][SharedCacheNext]_vars

\* ------------------------------------------------------------------------
\* Routing gateway (edge function, route POST /canada/ors_matrix)
\* ------------------------------------------------------------------------

\* new Response(JSON.stringify(bodyObj), { status }), without the headers
edgeResp(code, bodyObj) ==
  [status |-> code, ok |-> bodyObj.ok, error |-> bodyObj.error,
   hasArrays |-> bodyObj.hasArrays,
   distances_km |-> bodyObj.distances_km, durations_min |-> bodyObj.durations_min]

\* { ok: true, distances_km, durations_min }
okArrays(dk, dm) ==
  [ok |-> TRUE, error |-> "", hasArrays |-> TRUE, distances_km |-> dk, durations_min |-> dm]

\* line 305: (postalRaw || "").toString().trim().replace(/\s+/g, "")
edgePostal(postalRaw) == SelectSeq(trim(postalRaw), LAMBDA c : c \notin Whitespace)

\* the first result the geocoder has for a postal it matches: lat and lon
NOMINATIM ==
  (<< "M","5","V","2","T","6" >> :> [lat |-> 436446, lng |-> -793948]) @@
  (<< "T","2","P","1","J","9" >> :> [lat |-> 510447, lng |-> -1140719])

\* the row the matrix service has from the origin to a location: metres and
\* seconds (units "m")
EDGE_ROUTE ==
  ([lat |-> 436446, lng |-> -793948] :> [m |-> 450123, sec |-> 16210]) @@
  ([lat |-> 510447, lng |-> -1140719] :> [m |-> 3300456, sec |-> 118800])

\* how a geocode fetch can end: a result, no result (or a body that does not
\* parse), a non-2xx status, or the fetch itself rejecting
EdgeGeocodeOutcomes == { "match", "no match", "http error", "network error" }

\* lines 317-327: what geocodePostal returns for postal after its fetch
geocoded(postal, outcome) ==
  IF outcome = "match" /\ postal \in DOMAIN NOMINATIM THEN NOMINATIM[postal] ELSE null

\* lines 318 and 326: geoCache after the fetch; a rejected fetch leaves the
\* function before any geoCache.set
cachedAfter(cache, postal, outcome) ==
  IF outcome = "network error" THEN cache
  ELSE (postal :> geocoded(postal, outcome)) @@ cache

\* lines 337-342: the loop body past geocodePostal, for its result geo
pushGeo(L, geo) ==
  IF geo = null
  THEN [L EXCEPT !.cursor = @ + 1, !.idxMap = Append(@, NULL)]
  ELSE [L EXCEPT !.cursor = @ + 1,
                 !.destinations = Append(@, geo),
                 !.idxMap = Append(@, Len(L.destinations))]

\* lines 334-343: the loop from its position L.cursor up to the next entry
\* whose postal has to be fetched, or to the end of list
RECURSIVE edgeLoop(_, _)
edgeLoop(list, L) ==
  IF L.cursor = Len(list) THEN L
  ELSE Let(edgePostal(list[L.cursor + 1]), LAMBDA postal :
       IF postal = <<>> THEN edgeLoop(list, pushGeo(L, null))
       ELSE IF postal \in DOMAIN L.geoCache
       THEN edgeLoop(list, pushGeo(L, L.geoCache[postal]))
       ELSE L)

\* lines 334-370: where the handler stands when the loop stops at L: at the
\* fetch of the next postal, returning nulls, or at the matrix request
afterLoop(list, L) ==
  IF L.cursor < Len(list)
  THEN [epc |-> "geocoding", payload |-> noPayload, edgeResponse |-> noResponse]
  ELSE IF L.destinations = <<>>
  THEN [epc |-> "returned", payload |-> noPayload,
        edgeResponse |-> edgeResp(200, okArrays([i \in 1..Len(list) |-> NULL],
                                                [i \in 1..Len(list) |-> NULL]))]
  ELSE [epc |-> "matrix",
        payload |-> [sent |-> TRUE, locations |-> << "job" >> \o L.destinations],
        edgeResponse |-> noResponse]

\* the loop state in the variables
SetLoop(list, L, k) ==
  /\ geoCache' = L.geoCache
  /\ cursor' = L.cursor
  /\ destinations' = L.destinations
  /\ idxMap' = L.idxMap
  /\ epc' = k.epc
  /\ payload' = k.payload
  /\ edgeResponse' = k.edgeResponse
  /\ geocodeCalls' = IF k.epc = "geocoding"
                     THEN Append(geocodeCalls, edgePostal(list[L.cursor + 1]))
                     ELSE geocodeCalls

\* the postal of a techList entry: t?.tech_postal ?? t?.postal ?? ""
EdgePostals == { << "M","5","V"," ","2","T","6" >>, << "T","2","P","1","J","9" >>, << " " >> }

\* a list of n entries naming the two geocodable postals in turn
cycledList(n) ==
  [i \in 1..n |-> IF i % 2 = 1 THEN << "M","5","V"," ","2","T","6" >>
                               ELSE << "T","2","P","1","J","9" >>]

\* the bodies the route is sent: no JSON or no coordinates, tech missing, and
\* tech lists up to MaxDests entries, of 40 and of 41 entries
EdgeBodies ==
  { [job |-> "missing", isArray |-> FALSE, tech |-> <<>>],
    [job |-> "finite", isArray |-> FALSE, tech |-> <<>>] }
  \cup { [job |-> "finite", isArray |-> TRUE, tech |-> l] :
           l \in UNION { [1..n -> EdgePostals] : n \in 0..MaxDests } }
  \cup { [job |-> "finite", isArray |-> TRUE, tech |-> cycledList(n)] : n \in { 40, 41 } }

\* lines 274-343: the route from the request to its first fetch or its Response
EdgeInvoke ==
  /\ epc = "idle"
  /\ \E b \in EdgeBodies :
       /\ body' = b
       /\ IF ORS_API_KEY = ""
          THEN /\ epc' = "returned"
               /\ edgeResponse' = edgeResp(500, okFalse("Missing ORS_API_KEY env var"))
               /\ UNCHANGED << techList, geoCache, cursor, destinations, idxMap, payload,
                               geocodeCalls >>
          ELSE IF b.job # "finite"
          THEN /\ epc' = "returned"
               /\ edgeResponse' = edgeResp(400, okFalse("Invalid job_lat/job_lng"))
               /\ UNCHANGED << techList, geoCache, cursor, destinations, idxMap, payload,
                               geocodeCalls >>
          ELSE IF ~b.isArray \/ b.tech = <<>>
          THEN /\ epc' = "returned"
               /\ edgeResponse' = edgeResp(200, okArrays(<<>>, <<>>))
               /\ UNCHANGED << techList, geoCache, cursor, destinations, idxMap, payload,
                               geocodeCalls >>
          ELSE /\ techList' = b.tech
               /\ \E L \in { edgeLoop(b.tech, [cursor |-> 0, geoCache |-> <<>>,
                                                destinations |-> <<>>, idxMap |-> <<>>]) } :
                    SetLoop(b.tech, L, afterLoop(b.tech, L))
  /\ UNCHANGED ORS_API_KEY
  /\ UNCHANGED << pageVars, runVars, panelVars, obsVars, gwVars, callVars, poolVars, extVars >>

\* lines 310-343: the fetch of geocodePostal ends and the loop goes on
EdgeGeocoded ==
  /\ epc = "geocoding"
  /\ \E o \in EdgeGeocodeOutcomes :
     \E postal \in { edgePostal(techList[cursor + 1]) } :
     \E L \in { edgeLoop(techList,
                          pushGeo([cursor |-> cursor,
                                   geoCache |-> cachedAfter(geoCache, postal, o),
                                   destinations |-> destinations, idxMap |-> idxMap],
                                  geocoded(postal, o))) } :
       SetLoop(techList, L, afterLoop(techList, L))
  /\ UNCHANGED << ORS_API_KEY, body, techList >>
  /\ UNCHANGED << pageVars, runVars, panelVars, obsVars, gwVars, callVars, poolVars, extVars >>

\* lines 386-407: the rows expanded back over techList; distances_km in
\* 1/100 km and durations_min in 1/10 min, as lines 400 and 403 round them
edgeRows(n, im, distRow, durRow) ==
  edgeResp(200,
    okArrays([i \in 1..n |-> IF im[i] = NULL \/ distRow[im[i] + 1] = NULL THEN NULL
                             ELSE (distRow[im[i] + 1] + 5) \div 10],
             [i \in 1..n |-> IF im[i] = NULL \/ durRow[im[i] + 1] = NULL THEN NULL
                             ELSE (durRow[im[i] + 1] + 3) \div 6]))

\* lines 363-410 and 522-528: the matrix request ends: the fetch rejects (the
\* catch of line 522 answers 500), a non-2xx status or no JSON (502), or rows
\* in which an entry may be missing
EdgeMatrixReturned ==
  /\ epc = "matrix"
  /\ epc' = "returned"
  /\ \/ edgeResponse' = edgeResp(500, okFalse("fetch failed"))
     \/ edgeResponse' = edgeResp(502, okFalse("ORS matrix request failed"))
     \/ \E nd \in MissingSets(Len(destinations)) : \E nt \in MissingSets(Len(destinations)) :
          edgeResponse' = edgeRows(Len(techList), idxMap,
            [j \in 1..Len(destinations) |-> IF j \in nd THEN NULL ELSE EDGE_ROUTE[destinations[j]].m],
            [j \in 1..Len(destinations) |-> IF j \in nt THEN NULL ELSE EDGE_ROUTE[destinations[j]].sec])
  /\ UNCHANGED << ORS_API_KEY, body, techList, geoCache, cursor, destinations, idxMap, payload,
                  geocodeCalls >>
  /\ UNCHANGED << pageVars, runVars, panelVars, obsVars, gwVars, callVars, poolVars, extVars >>

\* the Response is sent and the request is over: its locals, geoCache among
\* them, are gone
EdgeSettled ==
  /\ epc = "returned"
  /\ epc' = "idle"
  /\ body' = [job |-> "none", isArray |-> FALSE, tech |-> <<>>]
  /\ techList' = <<>>
  /\ geoCache' = <<>>
  /\ cursor' = 0
  /\ destinations' = <<>>
  /\ idxMap' = <<>>
  /\ payload' = noPayload
  /\ edgeResponse' = noResponse
  /\ geocodeCalls' = <<>>
  /\ UNCHANGED ORS_API_KEY
  /\ UNCHANGED << pageVars, runVars, panelVars, obsVars, gwVars, callVars, poolVars, extVars >>

\* the edge function alone, deployed with or without its key
EdgeInit ==
  /\ TECHS = <<>>
  /\ POSTAL_PROV = <<>>
  /\ POSTAL_OVERRIDE = buildPostalOverride(<<>>)
  /\ ORS_ENDPOINT = "/api/canada/ors_matrix"
  /\ postalInput = <<>>
  /\ ticketText = <<>>
  /\ driveFactor = 0
  /\ PageLoaded
  /\ ORS_KEY = "key"
  /\ GatewayLoaded
  /\ NoCall
  /\ ORS_API_KEY \in { "", "key" }
  /\ EdgeIdle
  /\ NoGeocode
  /\ ApiLoaded
  /\ NoSession

EdgeNext ==
  \/ EdgeInvoke
  \/ EdgeGeocoded
  \/ EdgeMatrixReturned
  \/ EdgeSettled

EdgeSpec == EdgeInit /\ [][EdgeNext]_vars

\* ------------------------------------------------------------------------
\* Edge function: the routes of Deno.serve
\* ------------------------------------------------------------------------

\* lines 26-29: the configured tables, the unset ones filtered out
ALLOWED_TABLES ==
  { TECH_TABLE, ZIP_TABLE, FLEX_TABLE, CA_W2_TABLE, CA_POSTAL_TABLE, USA_W2_TABLE } \ { "" }

\* lines 136-139: url.pathname, given in pieces, with the prefixes
\* /functions/v1/api and /api taken off in turn; "/" when nothing is left
pathOf(path) ==
  Let(IF path # <<>> /\ path[1] = "/functions/v1/api" THEN Tail(path) ELSE path, LAMBDA p1 :
  Let(IF p1 # <<>> /\ p1[1] = "/api" THEN Tail(p1) ELSE p1, LAMBDA p2 :
      IF p2 = <<>> THEN << "/" >> ELSE p2))

\* a JSON Response
apiResp(code, bodyOk, err) ==
  [status |-> code, ok |-> bodyOk, error |-> err, table |-> "", rows |-> {}]

\* the substrings sheetToTable looks for that the trimmed, lower-cased sheet
\* name includes
SHEET_WORDS ==
  [n \in { "ARS Technician", "Tier 2 Flex", "Canada W2", "Canada W2 Technicians",
           "USA W2", " Notes " } |->
     CASE n = "ARS Technician" -> { "ars", "technician" }
       [] n = "Tier 2 Flex" -> { "tier 2", "flex" }
       [] n = "Canada W2" -> { "canada", "w2" }
       [] n = "Canada W2 Technicians" -> { "canada", "w2", "technician" }
       [] n = "USA W2" -> { "usa", "w2" }
       [] OTHER -> {}]

\* lines 84-100: the table of a sheet, "" for null
sheetToTable(sheetName) ==
  Let(SHEET_WORDS[sheetName], LAMBDA w :
      IF w \cap { "ars", "technician", "tech db" } # {} THEN TECH_TABLE
      ELSE IF w \cap { "tier 2", "tier2", "flex" } # {} THEN FLEX_TABLE
      ELSE IF { "canada", "w2" } \subseteq w THEN CA_W2_TABLE
      ELSE IF USA_W2_TABLE # "" /\ { "usa", "w2" } \subseteq w THEN USA_W2_TABLE
      ELSE "")

\* lines 76-82: normalizeCol of the header cells of the workbooks
normalizeCol(name) ==
  CASE name = "Tech ID" -> "tech_id"
    [] name = " Name" -> "name"
    [] name = "ID" -> "id"
    [] name = "#" -> ""
    [] OTHER -> name

\* lines 202-214: the columns of a sheet, in the order colsSet met them
colsOf(headers) ==
  Let([i \in 1..Len(headers) |-> normalizeCol(headers[i])], LAMBDA cs :
      SelectSeq([i \in 1..Len(cs) |->
                   IF cs[i] = "" \/ \E j \in 1..(i - 1) : cs[j] = cs[i] THEN "" ELSE cs[i]],
                LAMBDA c : c # ""))

\* lines 110-121 and 214-232: the statements one mapped sheet with rows runs,
\* in order: create, one alter per column but "id", truncate when the mode
\* is replace, and the upsert of its one chunk
sheetOps(sheet, table, mode) ==
  << [op |-> "create", table |-> table, arg |-> ""] >>
  \o [i \in 1..Len(SelectSeq(colsOf(sheet.headers), LAMBDA c : c # "id")) |->
        [op |-> "alter", table |-> table,
         arg |-> SelectSeq(colsOf(sheet.headers), LAMBDA c : c # "id")[i]]]
  \o (IF mode = "replace" THEN << [op |-> "truncate", table |-> table, arg |-> ""] >>
      ELSE <<>>)
  \o << [op |-> "upsert", table |-> table, arg |-> sheet.name] >>

\* the rows a sheet upserts
rowsOf(sheet, table) == { << table, sheet.name, i >> : i \in 1..sheet.nrows }

\* the database after one statement
applyOp(d, o, sheet) ==
  CASE o.op = "create" ->
         IF d[o.table].exists THEN d
         ELSE [d EXCEPT ![o.table] = [exists |-> TRUE, cols |-> { "id" }, rows |-> {}]]
    [] o.op = "alter" -> [d EXCEPT ![o.table].cols = @ \cup { o.arg }]
    [] o.op = "truncate" -> [d EXCEPT ![o.table].rows = {}]
    [] o.op = "upsert" -> [d EXCEPT ![o.table].rows = @ \cup rowsOf(sheet, o.table)]
    [] OTHER -> d

\* the database after the first k statements of ops
RECURSIVE applyOps(_, _, _, _)
applyOps(d, ops, k, sheet) ==
  IF k = 0 THEN d ELSE applyOp(applyOps(d, ops, k - 1, sheet), ops[k], sheet)

\* the check of the admin route without its test for an unset ADMIN_TOKEN
unauthorizedTokenOnly(token, adminToken) == token # adminToken

\* line 166: !ADMIN_TOKEN || token !== ADMIN_TOKEN
unauthorized(token, adminToken) == adminToken = "" \/ token # adminToken

\* the workbooks uploaded: one sheet for a table to create, a sheet without
\* a mapping before one with an "id" column and an empty header, an empty sheet
Workbooks ==
  { << [name |-> "Canada W2", headers |-> << "Tech ID", " Name", "Tech ID" >>, nrows |-> 2] >>,
    << [name |-> " Notes ", headers |-> << " Name" >>, nrows |-> 1],
       [name |-> "Canada W2 Technicians", headers |-> << "ID", "#" >>, nrows |-> 1] >>,
    << [name |-> "Tier 2 Flex", headers |-> << " Name" >>, nrows |-> 0],
       [name |-> "USA W2", headers |-> << " Name" >>, nrows |-> 1] >> }

\* the bodies of an upload: no file field, bytes that are no form or no
\* workbook, and the workbooks
Files ==
  { [kind |-> "none", sheets |-> <<>>], [kind |-> "garbage", sheets |-> <<>>] }
  \cup { [kind |-> "workbook", sheets |-> w] : w \in Workbooks }

\* the requests for the admin route
UploadRequests ==
  [method : { "POST" },
   path : { << "/admin/techdbs/upload" >>, << "/functions/v1/api", "/admin/techdbs/upload" >> },
   token : { "", "secret", "guess" },
   mode : { "", "replace" },
   table : { "" },
   file : Files]

\* requests for no route of the function, for the preflight and for health
OtherRequests ==
  [method : { "GET", "OPTIONS" },
   path : { << "/functions/v1/api" >>, << "/api", "/health" >>, << "/admin/techdbs/upload" >>,
            << "/nothing" >> },
   token : { "" }, mode : { "" }, table : { "" }, file : { [kind |-> "none", sheets |-> <<>>] }]

\* the routes that read a table, with the table each reads when the request
\* names none
READ_DEFAULT ==
  [pth \in { << "/oncall/techdb" >>, << "/oncall/uszips" >>, << "/canada/w2techdb" >>,
             << "/canada/postalprov" >> } |->
     CASE pth = << "/oncall/techdb" >> -> TECH_TABLE
       [] pth = << "/oncall/uszips" >> -> ZIP_TABLE
       [] pth = << "/canada/w2techdb" >> -> CA_W2_TABLE
       [] OTHER -> CA_POSTAL_TABLE]

\* p.startsWith("/export/")
isExport(pth) == pth # <<>> /\ pth[1] = "/export/"

\* lines 246, 274, 416, 441 and 487: the table a read route queries:
\* url.searchParams.get("table") || the route's table, and for the export
\* route the segment after /export/
readTable(r, pth) ==
  IF isExport(pth) THEN (IF Len(pth) >= 2 THEN pth[2] ELSE "")
  ELSE IF r.table # "" THEN r.table ELSE READ_DEFAULT[pth]

\* line 488, in the export route only:
\* ALLOWED_TABLES.size && !ALLOWED_TABLES.has(table)
notAllowed(pth, table) ==
  isExport(pth) /\ ALLOWED_TABLES # {} /\ table \notin ALLOWED_TABLES

\* the requests for the read routes: with no table parameter, with a
\* configured table, with tables of the schema the function is not
\* configured for, and with a table that does not exist
ReadRequests ==
  [method : { "GET" },
   path : { << "/oncall/techdb" >>, << "/api", "/oncall/uszips" >>, << "/canada/w2techdb" >>,
            << "/canada/postalprov" >> },
   token : { "" }, mode : { "" },
   table : { "", ZIP_TABLE, "ca_postal", "billing", "ghost" },
   file : { [kind |-> "none", sheets |-> <<>>] }]
  \cup
  [method : { "GET" },
   path : { << "/export/", t >> : t \in { FLEX_TABLE, CA_W2_TABLE, "ca_postal", "billing" } }
          \cup { << "/export/" >> },
   token : { "" }, mode : { "" }, table : { "", "billing" },
   file : { [kind |-> "none", sheets |-> <<>>] }]

Requests == UploadRequests \cup OtherRequests \cup ReadRequests

\* lines 123-171: the handler from its entry to its first await or Response
\* for method m and normalized path pth
routeEntry(r, pth) ==
  IF r.method = "OPTIONS" THEN [apc |-> "responded", resp |-> apiResp(200, FALSE, "")]
  ELSE IF SUPABASE_URL = "" \/ SERVICE_ROLE = ""
  THEN [apc |-> "responded",
        resp |-> apiResp(500, FALSE, "Missing SUPABASE_URL or SUPABASE_SERVICE_ROLE_KEY")]
  ELSE IF pth = << "/" >> \/ pth = << "/health" >>
  THEN [apc |-> "responded", resp |-> apiResp(200, TRUE, "")]
  ELSE IF pth = << "/admin/techdbs/upload" >> /\ r.method = "POST"
  THEN IF unauthorized(r.token, ADMIN_TOKEN)
       THEN [apc |-> "responded", resp |-> apiResp(401, FALSE, "Unauthorized")]
       ELSE [apc |-> "upload", resp |-> noApiResponse]
  ELSE IF pth \in DOMAIN READ_DEFAULT \/ isExport(pth)
  THEN IF notAllowed(pth, readTable(r, pth))
       THEN [apc |-> "responded",
             resp |-> [apiResp(403, FALSE, "Table not allowed") EXCEPT
                         !.table = readTable(r, pth)]]
       ELSE IF pth = << "/canada/postalprov" >> /\ readTable(r, pth) = ""
       THEN [apc |-> "responded", resp |-> apiResp(200, TRUE, "")]
       ELSE [apc |-> "select", resp |-> noApiResponse]
  ELSE [apc |-> "responded", resp |-> apiResp(404, FALSE, "Not found")]

\* a request arrives and the handler runs to its first await
Serve ==
  /\ apc = "idle"
  /\ \E r \in Requests : \E e \in { routeEntry(r, pathOf(r.path)) } :
       /\ req' = r
       /\ apc' = e.apc
       /\ apiResponse' = e.resp
  /\ UNCHANGED << SUPABASE_URL, SERVICE_ROLE, ADMIN_TOKEN, CA_POSTAL_TABLE, db, sheetCursor, dbOps >>
  /\ UNCHANGED << pageVars, runVars, panelVars, obsVars, gwVars, callVars, edgeVars, poolVars,
                  sessionVars >>

\* lines 175-185: req.formData() and XLSX.read: a body that is no form or no
\* workbook throws (500), a form without the file is answered 400
UploadParsed ==
  /\ apc = "upload"
  /\ sheetCursor = 0
  /\ req.file.kind # "workbook"
  /\ apc' = "responded"
  /\ apiResponse' = IF req.file.kind = "none" THEN apiResp(400, FALSE, "Missing file")
                    ELSE apiResp(500, FALSE, "parse")
  /\ UNCHANGED << SUPABASE_URL, SERVICE_ROLE, ADMIN_TOKEN, CA_POSTAL_TABLE, db, req, sheetCursor, dbOps >>
  /\ UNCHANGED << pageVars, runVars, panelVars, obsVars, gwVars, callVars, edgeVars, poolVars,
                  sessionVars >>

\* the Response once the loop is through with k sheets of n
afterSheet(k, n) ==
  /\ sheetCursor' = k
  /\ apc' = IF k = n THEN "responded" ELSE "upload"
  /\ apiResponse' = IF k = n THEN apiResp(200, TRUE, "") ELSE noApiResponse

\* lines 187-236: one pass of the loop over the sheets: a sheet with no
\* mapping or no rows is skipped; else its statements run in order, and the
\* first that fails throws into the catch of line 519 (500) with those before
\* it done
UploadSheet ==
  /\ apc = "upload"
  /\ req.file.kind = "workbook"
  /\ \E sheet \in { req.file.sheets[sheetCursor + 1] } :
     \E table \in { sheetToTable(sheet.name) } :
       IF table = "" \/ sheet.nrows = 0
       THEN /\ afterSheet(sheetCursor + 1, Len(req.file.sheets))
            /\ UNCHANGED << db, dbOps >>
       ELSE \E ops \in { sheetOps(sheet, table, req.mode) } :
            \E done \in 0..Len(ops) :
              /\ db' = applyOps(db, ops, done, sheet)
              /\ dbOps' = dbOps \o SubSeq(ops, 1, done)
              /\ IF done = Len(ops)
                 THEN afterSheet(sheetCursor + 1, Len(req.file.sheets))
                 ELSE /\ apc' = "responded"
                      /\ apiResponse' = apiResp(500, FALSE, "ufh_exec failed")
                      /\ UNCHANGED sheetCursor
  /\ UNCHANGED << SUPABASE_URL, SERVICE_ROLE, ADMIN_TOKEN, CA_POSTAL_TABLE, req >>
  /\ UNCHANGED << pageVars, runVars, panelVars, obsVars, gwVars, callVars, edgeVars, poolVars,
                  sessionVars >>

\* lines 249-250 and their like in each read route:
\* supabase.from(table).select("*") settles; an error (the table does not
\* exist) is thrown into the catch of line 519, else the rows are returned
Selected ==
  /\ apc = "select"
  /\ \E table \in { readTable(req, pathOf(req.path)) } :
       /\ dbOps' = Append(dbOps, [op |-> "select", table |-> table, arg |-> ""])
       /\ apiResponse' =
            IF table \in DOMAIN db /\ db[table].exists
            THEN [status |-> 200, ok |-> TRUE, error |-> "", table |-> table,
                  rows |-> db[table].rows]
            ELSE apiResp(500, FALSE, "relation does not exist")
  /\ apc' = "responded"
  /\ UNCHANGED << SUPABASE_URL, SERVICE_ROLE, ADMIN_TOKEN, CA_POSTAL_TABLE, db, req, sheetCursor >>
  /\ UNCHANGED << pageVars, runVars, panelVars, obsVars, gwVars, callVars, edgeVars, poolVars,
                  sessionVars >>

\* the Response is sent and the request is over
ApiSettled ==
  /\ apc = "responded"
  /\ req' = noRequest
  /\ apc' = "idle"
  /\ sheetCursor' = 0
  /\ apiResponse' = noApiResponse
  /\ dbOps' = <<>>
  /\ UNCHANGED << SUPABASE_URL, SERVICE_ROLE, ADMIN_TOKEN, CA_POSTAL_TABLE, db >>
  /\ UNCHANGED << pageVars, runVars, panelVars, obsVars, gwVars, callVars, edgeVars, poolVars,
                  sessionVars >>

\* the edge function alone, deployed with or without each of its secrets
ApiInit ==
  /\ TECHS = <<>>
  /\ POSTAL_PROV = <<>>
  /\ POSTAL_OVERRIDE = buildPostalOverride(<<>>)
  /\ ORS_ENDPOINT = ""
  /\ postalInput = <<>>
  /\ ticketText = <<>>
  /\ driveFactor = 0
  /\ PageLoaded
  /\ ORS_KEY = "key"
  /\ GatewayLoaded
  /\ NoCall
  /\ EdgeLoaded
  /\ NoGeocode
  /\ SUPABASE_URL \in { "", "url" } /\ SERVICE_ROLE \in { "", "role" }
  /\ ADMIN_TOKEN \in { "", "secret" }
  /\ CA_POSTAL_TABLE \in { "", "ca_postal" }
  /\ db = DB0
  /\ ApiIdle
  /\ NoSession

ApiNext ==
  \/ Serve
  \/ UploadParsed
  \/ UploadSheet
  \/ Selected
  \/ ApiSettled

ApiSpec == ApiInit /\ [][ApiNext]_vars

\* ------------------------------------------------------------------------
\* findClosest on rosters longer than the shortlist and the candidate list
\* ------------------------------------------------------------------------

\* the entry of TechPool with tech_id k
poolEntry(k) == CHOOSE t \in TechPool : t.tech_id = k

\* a roster of n technicians with tech_id 1..n, located as the first m
\* entries of TechPool in turn
cycledRoster(n, m) ==
  [i \in 1..n |-> [poolEntry(((i - 1) % m) + 1) EXCEPT !.tech_id = i]]

\* rosters with 7 and 9 resolvable technicians among 9 and 12, with 27
\* resolvable technicians, and with none
LongRosters ==
  { cycledRoster(9, 4), cycledRoster(12, 4), cycledRoster(27, 3), << poolEntry(4) >> }

LongRosterInit ==
  /\ TECHS \in LongRosters
  /\ POSTAL_PROV \in PostalProvMaps
  /\ POSTAL_OVERRIDE = buildPostalOverride(TECHS)
  /\ ORS_ENDPOINT \in { "", "/api/canada/ors_matrix" }
  /\ \E in \in TicketInputs : postalInput = in[1] /\ ticketText = in[2]
  /\ driveFactor \in DriveFactors
  /\ PageLoaded
  /\ ORS_KEY = "key"
  /\ GatewayLoaded
  /\ NoCall
  /\ EdgeLoaded
  /\ NoGeocode
  /\ ApiLoaded
  /\ NoSession

LongRosterSpec == LongRosterInit /\ [][Next]_vars

\* ------------------------------------------------------------------------
\* The page and the gateway deployed together: one findClosest run posting to
\* the gateway while handler serves the events it is sent
\* ------------------------------------------------------------------------

DeploymentInit ==
  /\ TECHS = << poolEntry(1) >>
  /\ POSTAL_PROV = <<>>
  /\ POSTAL_OVERRIDE = buildPostalOverride(TECHS)
  /\ ORS_ENDPOINT = "/api/canada/ors_matrix"
  /\ postalInput = << "k","1","a"," ","0","b","1" >>
  /\ ticketText = <<>>
  /\ driveFactor \in DriveFactors
  /\ PageLoaded
  /\ ORS_KEY = "key"
  /\ GatewayLoaded
  /\ NoCall
  /\ EdgeLoaded
  /\ NoGeocode
  /\ ApiLoaded
  /\ NoSession

DeploymentNext ==
  \/ StartRouting
  \/ FindClosestResume
  \/ GatewayNext

DeploymentSpec == DeploymentInit /\ [][DeploymentNext]_vars

\* ------------------------------------------------------------------------
\* End to end: the request of one findClosest run is the event handler is
\* invoked with, and what handler returns is what postJson gets
\* ------------------------------------------------------------------------

\* technicians whose postals the geocoder knows, spelled with a space, in
\* lower case with a hyphen, and with blanks around; and one with no postal
RoutedPool ==
  { [tech_id |-> 1, postal |-> <<"T","2","P"," ","1","J","9">>, city |-> "Calgary", province |-> "ab"],
    [tech_id |-> 2, postal |-> <<"m","5","v","-","2","t","6">>, city |-> "", province |-> ""],
    [tech_id |-> 3, postal |-> <<" ","k","1","a","0","b","1"," ">>, city |-> "", province |-> ""],
    [tech_id |-> 4, postal |-> <<"N","/","A">>, city |-> "Winnipeg", province |-> "MB"] }

\* rosters of distinct technicians, and one of 27 located as the first three
\* in turn
RoutedRosters ==
  UNION { { r \in [1..n -> RoutedPool] : \A i, j \in 1..n : i # j => r[i] # r[j] } :
          n \in 1..MaxRoster }
  \cup { [i \in 1..27 |->
            [(CHOOSE t \in RoutedPool : t.tech_id = ((i - 1) % 3) + 1) EXCEPT !.tech_id = i]] }

\* the event Netlify builds from the POST of lines 876-879
eventOf(r) ==
  [httpMethod |-> "POST", body |-> Body("object", r.ticket_postal, r.tech_postals, TRUE)]

\* lines 744-760 and 880-881: what postJson gives for what handler returned:
\* it throws on a status that is not 2xx (a handler that threw is a 502), and
\* line 881 throws on a body with ok false
responseOf(at, res) ==
  IF at = "threw" \/ res.statusCode < 200 \/ res.statusCode > 299
  THEN [kind |-> "http error", distances_km |-> <<>>, durations_min |-> <<>>]
  ELSE IF ~res.ok
  THEN [kind |-> "ok false", distances_km |-> <<>>, durations_min |-> <<>>]
  ELSE [kind |-> "ok", distances_km |-> res.distances_km, durations_min |-> res.durations_min]

\* the gateway is invoked with the request the run posted
RequestArrived ==
  /\ pc = "awaiting"
  /\ result = noResult
  /\ InvokeWith(eventOf(request))

\* lines 880-965: the fetch of postJson ends with what handler returned, or
\* rejects, and findClosest runs to its end
ResponseArrived ==
  /\ pc = "awaiting"
  /\ UNCHANGED << gwVars, callVars, edgeVars, poolVars, extVars >>
  /\ \/ hpc \in { "returned", "threw" } /\ response' = responseOf(hpc, result)
     \/ response' = [kind |-> "network error", distances_km |-> <<>>, durations_min |-> <<>>]
  /\ ResumeThrown(response') \/ ResumeOk(response')
  /\ UNCHANGED << pageVars, p, ticketLL, scored, gatewayCalls, request, resolveCalls >>

EndToEndInit ==
  /\ TECHS \in RoutedRosters
  /\ POSTAL_PROV = <<>>
  /\ POSTAL_OVERRIDE = buildPostalOverride(TECHS)
  /\ ORS_ENDPOINT = "/api/canada/ors_matrix"
  /\ postalInput = << "k","1","a"," ","0","b","1" >>
  /\ ticketText = <<>>
  /\ driveFactor \in DriveFactors
  /\ PageLoaded
  /\ ORS_KEY = "key"
  /\ GEO_CACHE \in { <<>>, GEO_POINT }
  /\ Len(TECHS) > MaxRoster => GEO_CACHE = GEO_POINT
  /\ HandlerIdle
  /\ NoCall
  /\ EdgeLoaded
  /\ NoGeocode
  /\ ApiLoaded
  /\ NoSession

EndToEndNext ==
  \/ FailNoTechs
  \/ StartRouting
  \/ RequestArrived
  \/ OriginGeocoded
  \/ DestGeocoded
  \/ MatrixReturned
  \/ ResponseArrived

EndToEndSpec == EndToEndInit /\ [][EndToEndNext]_vars

\* ------------------------------------------------------------------------
\* The page in use: clicks, edits of the fields and the debounce timer
\* ------------------------------------------------------------------------

\* calls of findClosest in one session
MaxRuns == 2
\* input events of ticketText in one session
MaxInputs == 2

\* what the result panel shows
panel ==
  [status |-> status, resTitle |-> resTitle, resMeta |-> resMeta, kmEl |-> kmEl,
   driveKmEl |-> driveKmEl, kpiRow |-> kpiRow, topList |-> topList,
   topListDisplay |-> topListDisplay]

\* a call of findClosest that has written nothing yet
nothingShown ==
  [status |-> "", resTitle |-> 0, resMeta |-> "", kmEl |-> NULL,
   driveKmEl |-> [tag |-> "", value |-> NULL], kpiRow |-> "", topList |-> <<>>,
   topListDisplay |-> ""]

\* what the user types into postalInput
SessionFields ==
  { <<>>, <<"k","1","a"," ","0","b","1">>, <<"Z","1","Z","1","Z","1">> }

\* what the user types or pastes into ticketText
SessionTexts ==
  { <<"t","o"," ","T","2","P"," ","1","J","9","!">>, <<"n","o"," ","c","o","d","e">> }

\* window.CA_W2_TECHS of the session: two technicians that resolve, or one
\* that does not
SessionRosters ==
  { r \in Rosters : \/ Len(r) = 2 /\ r[1].tech_id = 1 /\ r[2].tech_id = 2
                    \/ Len(r) = 1 /\ r[1].tech_id = 4 }

\* what the gateway answers a run with n candidates: a failure, no figure
\* at all, or figures that put the candidates in the reverse order
SessionResponses(n) ==
  { [kind |-> "network error", distances_km |-> <<>>, durations_min |-> <<>>],
    [kind |-> "ok", distances_km |-> [i \in 1..n |-> NULL],
     durations_min |-> [i \in 1..n |-> NULL]],
    [kind |-> "ok", distances_km |-> [i \in 1..n |-> Min(n + 1 - i, MaxDrive)],
     durations_min |-> [i \in 1..n |-> Min(n + 1 - i, MaxDrive)]] }

\* the locals of a call of findClosest at line 830, each call its own
newRun ==
  [pc |-> "idle", textRead |-> consultsText, p |-> ticketPostal,
   ticketLL |-> null, rows |-> <<>>, scored |-> <<>>, candidates |-> <<>>,
   overlapped |-> \E r \in 1..Len(runs) : runs[r].pc = "awaiting",
   shown |-> nothingShown]

\* lines 826-843 of a click of btnFind: no postal in the field or the text
ClickNoPostal ==
  /\ ticketPostal = <<>>
  /\ status' = "No valid Canadian postal code found."
  /\ resTitle' = 0
  /\ resMeta' = "Paste ticket or enter postal code."
  /\ kpiRow' = "none"
  /\ topListDisplay' = "none"
  /\ UNCHANGED << kmEl, driveKmEl, topList, postalInput >>
  /\ runs' = Append(runs, [newRun EXCEPT !.pc = "failed", !.shown = panel'])

\* lines 826-849: the ticket postal resolves at no tier
ClickTicketUnresolved ==
  /\ ticketPostal # <<>>
  /\ latLonForPostal(ticketPostal, "", "") = null
  /\ postalInput' = postalInputAfter
  /\ status' = "Unable to resolve location for ticket postal code."
  /\ UNCHANGED << resTitle, resMeta, kmEl, driveKmEl, kpiRow, topList, topListDisplay >>
  /\ runs' = Append(runs, [newRun EXCEPT !.pc = "failed", !.shown = panel'])

\* lines 826-863: no roster entry resolves
ClickNoTechs ==
  /\ ticketPostal # <<>>
  /\ latLonForPostal(ticketPostal, "", "") # null
  /\ scoreRoster(latLonForPostal(ticketPostal, "", "")) = <<>>
  /\ postalInput' = postalInputAfter
  /\ status' = "No tech locations available."
  /\ UNCHANGED << resTitle, resMeta, kmEl, driveKmEl, kpiRow, topList, topListDisplay >>
  /\ runs' = Append(runs, [newRun EXCEPT !.pc = "failed",
                                         !.ticketLL = latLonForPostal(ticketPostal, "", ""),
                                         !.shown = panel'])

\* lines 826-879 with ORS_ENDPOINT set: up to the await of postJson
ClickRouting ==
  /\ ticketPostal # <<>>
  /\ latLonForPostal(ticketPostal, "", "") # null
  /\ \E tLL \in { latLonForPostal(ticketPostal, "", "") } :
     \E rs \in { scoreRoster(tLL) } :
     \E sc \in { sortedScored(rs) } :
         /\ routingAttempted(rs)
         /\ postalInput' = postalInputAfter
         /\ status' = "Calculating driving distance (ORS)..."
         /\ UNCHANGED << resTitle, resMeta, kmEl, driveKmEl, kpiRow, topList, topListDisplay >>
         /\ runs' = Append(runs, [newRun EXCEPT !.pc = "awaiting",
                                                !.ticketLL = tLL, !.rows = rs, !.scored = sc,
                                                !.candidates = candidatesOf(sc)])

\* lines 826-871 and 936-964 with ORS_ENDPOINT empty: the estimate
ClickEstimate ==
  /\ ticketPostal # <<>>
  /\ latLonForPostal(ticketPostal, "", "") # null
  /\ \E tLL \in { latLonForPostal(ticketPostal, "", "") } :
     \E rs \in { scoreRoster(tLL) } :
     \E sc \in { sortedScored(rs) } :
         /\ rs # <<>>
         /\ ~routingAttempted(rs)
         /\ postalInput' = postalInputAfter
         /\ ShowEstimate(sc, rs, tLL)
         /\ runs' = Append(runs, [newRun EXCEPT !.pc = "done",
                                                !.ticketLL = tLL, !.rows = rs, !.scored = sc,
                                                !.shown = panel'])

\* line 967: a click of btnFind calls findClosest, which runs to its first
\* await or to its end
FindClicked ==
  /\ Len(runs) < MaxRuns
  /\ \/ ClickNoPostal
     \/ ClickTicketUnresolved
     \/ ClickNoTechs
     \/ ClickRouting
     \/ ClickEstimate
  /\ UNCHANGED << TECHS, POSTAL_PROV, POSTAL_OVERRIDE, ORS_ENDPOINT, ticketText, driveFactor,
                  tmo, timers, timersSet >>
  /\ UNCHANGED << runVars, obsVars, gwVars, callVars, edgeVars, poolVars, apiVars >>

\* lines 880-965: a call at its await resumes when its own fetch settles,
\* before or after those of the other calls
resumable(r) == runs[r].pc = "awaiting"

\* lines 880-965 of the call r: from the return of postJson to the end
RunResumed ==
  \E r \in 1..Len(runs) :
    /\ resumable(r)
    /\ runs[r].pc = "awaiting"
    /\ \E answer \in SessionResponses(Len(runs[r].candidates)) :
         IF gatewayThrows(answer)
         THEN /\ ShowEstimate(runs[r].scored, runs[r].rows, runs[r].ticketLL)
              /\ runs' = [runs EXCEPT ![r].pc = "done", ![r].shown = panel']
         ELSE \E rs \in { applyDriving(runs[r].rows, runs[r].candidates, answer) } :
              \E cs \in { sortedCandidates(runs[r].candidates, rs) } :
              \E b \in { findBest(cs, rs) } :
                /\ IF showsDriving(TRUE, b, rs)
                   THEN ShowDriving(b, cs, rs)
                   ELSE ShowEstimate(runs[r].scored, rs, runs[r].ticketLL)
                /\ runs' = [runs EXCEPT ![r].pc = "done", ![r].rows = rs,
                                        ![r].candidates = cs, ![r].shown = panel']
    /\ UNCHANGED << pageVars, tmo, timers, timersSet >>
    /\ UNCHANGED << runVars, obsVars, gwVars, callVars, edgeVars, poolVars, apiVars >>

\* the user types into postalInput
PostalEdited ==
  /\ \E v \in SessionFields : v # postalInput /\ postalInput' = v
  /\ UNCHANGED << TECHS, POSTAL_PROV, POSTAL_OVERRIDE, ORS_ENDPOINT, ticketText, driveFactor >>
  /\ UNCHANGED << panelVars, sessionVars >>
  /\ UNCHANGED << runVars, obsVars, gwVars, callVars, edgeVars, poolVars, apiVars >>

\* an input handler that sets a timer and leaves the one before pending
clearedNever(id, pendingTimers) == pendingTimers

\* line 984: if (tmo) clearTimeout(tmo)
cleared(id, pendingTimers) == IF id # 0 THEN pendingTimers \ { id } ELSE pendingTimers

\* lines 983-992: the user types into ticketText; the input handler sets
\* the timer
TicketTextInput ==
  /\ timersSet < MaxInputs
  /\ \E v \in SessionTexts : v # ticketText /\ ticketText' = v
  /\ timers' = cleared(tmo, timers) \cup { timersSet + 1 }
  /\ tmo' = timersSet + 1
  /\ timersSet' = timersSet + 1
  /\ UNCHANGED << TECHS, POSTAL_PROV, POSTAL_OVERRIDE, ORS_ENDPOINT, postalInput, driveFactor >>
  /\ UNCHANGED << panelVars, runs >>
  /\ UNCHANGED << runVars, obsVars, gwVars, callVars, edgeVars, poolVars, apiVars >>

\* a callback that fills the field whatever it holds
autoFillsAnyField(field, text) == extractPostalFromText(text) # <<>>

\* line 987: if (p && !normalizePostal(postalInput.value))
autoFills(field, text) ==
  extractPostalFromText(text) # <<>> /\ normalizePostal(field) = <<>>

\* lines 985-990: 250 ms after it was set, a timer still pending fires
TimerFired ==
  /\ \E id \in timers : timers' = timers \ { id }
  /\ IF autoFills(postalInput, ticketText)
     THEN /\ postalInput' = formatPostal(extractPostalFromText(ticketText))
          /\ status' = "Postal auto-detected from ticket."
     ELSE UNCHANGED << postalInput, status >>
  /\ UNCHANGED << TECHS, POSTAL_PROV, POSTAL_OVERRIDE, ORS_ENDPOINT, ticketText, driveFactor >>
  /\ UNCHANGED << resTitle, resMeta, kmEl, driveKmEl, kpiRow, topList, topListDisplay >>
  /\ UNCHANGED << runs, tmo, timersSet >>
  /\ UNCHANGED << runVars, obsVars, gwVars, callVars, edgeVars, poolVars, apiVars >>

\* lines 969-977: a click of btnExtract
ExtractClicked ==
  /\ IF extractPostalFromText(ticketText) = <<>>
     THEN /\ status' = "No postal code found in ticket text."
          /\ UNCHANGED postalInput
     ELSE /\ postalInput' = formatPostal(extractPostalFromText(ticketText))
          /\ status' = "Postal extracted from ticket."
  /\ UNCHANGED << TECHS, POSTAL_PROV, POSTAL_OVERRIDE, ORS_ENDPOINT, ticketText, driveFactor >>
  /\ UNCHANGED << resTitle, resMeta, kmEl, driveKmEl, kpiRow, topList, topListDisplay >>
  /\ UNCHANGED sessionVars
  /\ UNCHANGED << runVars, obsVars, gwVars, callVars, edgeVars, poolVars, apiVars >>

\* lines 780-790 and 979: a click of btnClear runs clearUI; setting
\* ticketText.value from the script fires no input event
ClearClicked ==
  /\ ticketText' = <<>>
  /\ postalInput' = <<>>
  /\ resTitle' = 0
  /\ resMeta' = "-"
  /\ kpiRow' = "none"
  /\ topListDisplay' = "none"
  /\ topList' = <<>>
  /\ status' = "Ready"
  /\ UNCHANGED << TECHS, POSTAL_PROV, POSTAL_OVERRIDE, ORS_ENDPOINT, driveFactor >>
  /\ UNCHANGED << kmEl, driveKmEl >>
  /\ UNCHANGED sessionVars
  /\ UNCHANGED << runVars, obsVars, gwVars, callVars, edgeVars, poolVars, apiVars >>

\* the page as loaded: both fields empty, nothing clicked
SessionInit ==
  /\ TECHS \in SessionRosters
  /\ POSTAL_PROV = <<>>
  /\ POSTAL_OVERRIDE = buildPostalOverride(TECHS)
  /\ ORS_ENDPOINT \in { "", "/api/canada/ors_matrix" }
  /\ postalInput = <<>>
  /\ ticketText = <<>>
  /\ driveFactor \in DriveFactors
  /\ PageLoaded
  /\ ORS_KEY = "key"
  /\ GatewayLoaded
  /\ NoCall
  /\ EdgeLoaded
  /\ NoGeocode
  /\ ApiLoaded
  /\ NoSession

SessionNext ==
  \/ FindClicked
  \/ RunResumed
  \/ PostalEdited
  \/ TicketTextInput
  \/ TimerFired
  \/ ExtractClicked
  \/ ClearClicked

SessionSpec == SessionInit /\ [][SessionNext]_vars

\* ------------------------------------------------------------------------
\* The functions of the browser script, each called on its own
\* ------------------------------------------------------------------------

\* a postal string with first character c
postalOf(c) == << c, "1", "A", "1", "A", "1" >>

\* the postal strings normalizePostal is called with: '' (also what s || ''
\* makes of null and undefined), every string of six characters over a
\* letter, a digit and a separator, and spellings that are too short, too
\* long, lower-case, padded, separated, or led by each letter of the alphabet,
\* and five digits
PostalStrings ==
  [1..6 -> { "t", "2", "-" }]
  \cup { postalOf(UPPER[i]) : i \in 1..26 }
  \cup { <<>>, <<" ">>, <<"n","u","l","l">>, <<"N","/","A">>,
         <<"k","1","a"," ","0","b","1">>, <<" ","K","1","A","0","B","1"," ">>,
         <<"K","1","A","-","0","B","1">>, <<"K","1","A","0","B">>,
         <<"K","1","A","0","B","1","2">>, <<"K","1","A"," ","0","B","1"," ","x","y">>,
         <<"1","K","1","A","0","B">>, <<"K","K","A","0","B","1">>,
         <<"k","_","1","a","0","b","1">>, <<"T","2","P"," ","1","J","9">>,
         <<"9","0","2","1","0">>, <<" ","1","0","0","0","1"," ">> }

\* the texts extractPostalFromText is called with
Texts ==
  { <<>>,
    <<"s","e","n","d"," ","t","o"," ","K","1","A"," ","0","B","1"," ","a","s","a","p">>,
    <<"k","1","a","0","b","1">>,
    <<"K","1","A"," "," ","0","B","1",".">>,
    <<"n","o"," ","c","o","d","e">>,
    <<"K","1","A","-","0","B","1">>,
    <<"X","K","1","A"," ","0","B","1">>,
    <<"K","1","A"," ","0","B","1","2">>,
    <<"D","1","A"," ","1","A","1",","," ","t","2","p","1","j","9">>,
    <<"T","2","P"," ","1","J","9"," ","o","r"," ","K","1","A"," ","0","B","1">>,
    <<"K","1","A"," ","0","B"," ","R","3","C"," ","4","A","5">>,
    <<"X","K","1","A","0","B","1"," ","t","2","p"," ","1","j","9">> }

\* the postal strings the resolver is called with: one per first letter, a
\* roster spelling, the key of the postal-province map, and one that fails
ResolverPostals ==
  { postalOf(UPPER[i]) : i \in 1..26 }
  \cup { <<"T","2","P"," ","1","J","9">>, <<"Z","1","Z","1","Z","1">>, <<"N","/","A">> }

\* window.CA_POSTAL_PROV as the resolver is called with it: also with an
\* entry that differs from the first-letter region, and an empty entry
ResolverProvMaps ==
  PostalProvMaps \cup { (postalOf("T") :> "SK") @@ (postalOf("K") :> "") }

\* the hints the resolver is called with ('' for a missing hint)
CityHints == { "", "Calgary", "Winnipeg", "Brandon" }
ProvHints == { "", "ab", "mb ", "MB", "XX", " " }

\* the rosters the script is loaded with: none, one whose entry sets an
\* override, one that also sets an override for a postal whose first letter
\* no province has
ResolverRosters ==
  { <<>>,
    << [tech_id |-> 1, postal |-> <<"T","2","P"," ","1","J","9">>, city |-> "Calgary", province |-> "ab"] >>,
    << [tech_id |-> 5, postal |-> postalOf("D"), city |-> "Winnipeg", province |-> "MB"],
       [tech_id |-> 1, postal |-> <<"T","2","P"," ","1","J","9">>, city |-> "Calgary", province |-> "ab"] >> }

\* the base factors effectiveDriveFactor is called with, in 1/100: negative,
\* zero, below 0.8, within [0.8, 5], above 5, and not finite
BaseFactors == { -100, 0, 10, 80, 125, 500, 10000, NaN, POS_INFINITY, NEG_INFINITY }

\* the provinces of a resolved coordinate, and what other callers may pass
Provinces == DOMAIN PROV_PENALTY \cup { "", "XX", "constructor" }

\* the coordinates effectiveDriveFactor is called with (it reads prec and prov)
TicketLLs ==
  { null } \cup [lat : {0}, lon : {0}, prec : {"prov"}, prov : Provinces, city : {""}]
           \cup [lat : {0}, lon : {0}, prec : {"postal", "city"}, prov : {"AB", ""}, city : {""}]
TechLLs ==
  { null } \cup [lat : {0}, lon : {0}, prec : {"postal", "city", "prov"}, prov : {"MB"}, city : {""}]

\* ${n} of a template literal: the decimal digits of a whole number n >= 0
RECURSIVE numberText(_)
numberText(n) ==
  IF n < 10 THEN << CHOOSE d \in Digits : d = ToString(n) >>
  ELSE numberText(n \div 10) \o numberText(n % 10)

\* the text of the em dash (U+2014) returned for no travel time
DASH == << "U+2014" >>

\* `${m} min`
minText(m) == numberText(m) \o << " ", "m", "i", "n" >>

\* `${h}h ${m}m`
hourText(h, m) == numberText(h) \o << "h", " " >> \o numberText(m) \o << "m" >>

\* Math.round of the fraction num / den, den > 0: the nearest whole number,
\* a half rounded up
roundFraction(num, den) == (2 * num + den) \div (2 * den)

\* etaFromKm, km in 1/10 km and speed in km/h: hours = km / speed is the
\* fraction km / (10 * speed), h its floor, and (hours - h) * 60 the fraction
\* 6 * (km % (10 * speed)) / speed
etaFromKm(km, speed) ==
  IF ~isFinite(km) \/ ~isFinite(speed) \/ speed <= 0 THEN DASH
  ELSE Let(km \div (10 * speed), LAMBDA h :
       Let(roundFraction(6 * (km % (10 * speed)), speed), LAMBDA m :
         IF h <= 0 THEN minText(m) ELSE hourText(h, m)))

\* etaFromMinutes of the fraction num / den of a minute (den > 0)
etaFromMinutes(num, den) ==
  IF ~isFinite(num) THEN DASH
  ELSE Let(IF roundFraction(num, den) < 0 THEN 0 ELSE roundFraction(num, den),
           LAMBDA total :
       Let(total \div 60, LAMBDA h :
       Let(total % 60, LAMBDA m :
         IF h <= 0 THEN minText(total) ELSE hourText(h, m))))

\* the speeds clamp(..., 20, 130) leaves: the ends and the default
EtaSpeeds == { 20, 80, 130 }

\* distances, in 1/10 km, from nothing to past the second hour at 80 km/h
EtaKms == (0..420) \cup (780..820) \cup (1280..1320) \cup (1580..1620)

\* the travel time ends on an exact half minute; there the doubles of
\* (hours - h) * 60 fall on either side of the half
exactTie(km, speed) == (12 * (km % (10 * speed))) % (2 * speed) = speed

\* the calls of the two renderers: a distance and a speed, the time being
\* 60 * km / speed for etaFromMinutes
EtaInputs ==
  { i \in [fn : {"etaFromKm", "etaFromMinutes"}, km : EtaKms, speed : EtaSpeeds] :
      ~exactTie(i.km, i.speed) }
  \cup [fn : {"etaFromKm"}, km : {NaN, POS_INFINITY, 1000}, speed : {0, NaN}]

\* the calls
\* the coordinates haversineKm is called with: those of the tables
Coordinates == { COORDS[i] : i \in 1..Len(COORDS) }

Inputs ==
  [fn : {"normalizePostal", "formatPostal", "normPostal"}, s : PostalStrings]
  \cup [fn : {"extractPostalFromText"}, text : Texts]
  \cup [fn : {"provForPostal"}, p6 : ResolverPostals]
  \cup [fn : {"latLonForPostal"}, p6 : ResolverPostals, cityHint : CityHints, provHint : ProvHints]
  \cup [fn : {"effectiveDriveFactor"}, base : BaseFactors, ticketLL : TicketLLs, techLL : TechLLs]
  \cup [fn : {"haversineKm"}, a : Coordinates, b : Coordinates]
  \cup EtaInputs

\* the script is loaded and one call is about to be made
FunctionInit ==
  /\ TECHS \in ResolverRosters
  /\ POSTAL_PROV \in ResolverProvMaps
  /\ POSTAL_OVERRIDE = buildPostalOverride(TECHS)
  /\ ORS_ENDPOINT = ""
  /\ postalInput = <<>>
  /\ ticketText = <<>>
  /\ driveFactor = 0
  /\ PageLoaded
  /\ ORS_KEY = "key"
  /\ GatewayLoaded
  /\ EdgeLoaded
  /\ NoGeocode
  /\ ApiLoaded
  /\ NoSession
  /\ input \in Inputs
  /\ output = [fn |-> "none"]

\* the call returns value
returns(value) ==
  /\ output.fn = "none"
  /\ output' = [fn |-> input.fn, value |-> value]
  /\ UNCHANGED << pageVars, runVars, panelVars, obsVars, gwVars, edgeVars, poolVars, extVars, input >>

CallNormalizePostal ==
  input.fn = "normalizePostal" /\ returns(normalizePostal(input.s))

\* normPostal of the Netlify function
CallNormPostal ==
  input.fn = "normPostal" /\ returns(normPostal(input.s))

CallFormatPostal ==
  input.fn = "formatPostal" /\ returns(formatPostal(input.s))

CallExtractPostalFromText ==
  input.fn = "extractPostalFromText" /\ returns(extractPostalFromText(input.text))

CallProvForPostal ==
  input.fn = "provForPostal" /\ returns(provForPostal(input.p6))

CallLatLonForPostal ==
  input.fn = "latLonForPostal"
  /\ returns(latLonForPostal(input.p6, input.cityHint, input.provHint))

CallEffectiveDriveFactor ==
  input.fn = "effectiveDriveFactor"
  /\ returns(effectiveDriveFactor(input.base, input.ticketLL, input.techLL))

CallHaversineKm ==
  input.fn = "haversineKm" /\ returns(haversineKm(input.a, input.b))

CallEtaFromKm ==
  input.fn = "etaFromKm" /\ returns(etaFromKm(input.km, input.speed))

\* etaFromMinutes(60 * km / speed)
CallEtaFromMinutes ==
  input.fn = "etaFromMinutes"
  /\ returns(etaFromMinutes(60 * input.km, 10 * input.speed))

FunctionNext ==
  \/ CallEtaFromKm
  \/ CallEtaFromMinutes
  \/ CallHaversineKm
  \/ CallNormalizePostal
  \/ CallNormPostal
  \/ CallFormatPostal
  \/ CallExtractPostalFromText
  \/ CallProvForPostal
  \/ CallLatLonForPostal
  \/ CallEffectiveDriveFactor

FunctionSpec == FunctionInit /\ [][FunctionNext]_vars

\* ------------------------------------------------------------------------
\* Properties of findClosest
\* ------------------------------------------------------------------------

\* the coordinate latLonForPostal has for each roster position, null for none
techLLs ==
  [i \in 1..Len(TECHS) |-> latLonForPostal(TECHS[i].postal, TECHS[i].city, TECHS[i].province)]

\* the roster positions that resolve, given the coordinates ll
resolvedIn(ll) == { i \in DOMAIN ll : ll[i] # null }

\* the straight-line distance from the ticket to each resolved roster position
kmsOf(ll) == [i \in resolvedIn(ll) |-> haversineKm(ticketLL, ll[i])]

\* C1: in both modes the best entry and every shortlist entry is a technician
\* for which latLonForPostal returned a coordinate; a technician for which it
\* returns null is never scored and never shown.
C1_OnlyResolvedRanked ==
  LET ll == techLLs
      ids == { TECHS[i].tech_id : i \in resolvedIn(ll) }
  IN  /\ \A r \in 1..Len(rows) : ll[rows[r].tech] # null
      /\ pc = "done" =>
           /\ resTitle \in ids
           /\ \A k \in 1..Len(topList) : topList[k].tech_id \in ids

C1_Witness ==
  /\ pc = "done"
  /\ resMeta = "ORS driving"
  /\ Len(TECHS) = 3
  /\ Cardinality(resolvedIn(techLLs)) = 2
  /\ Len(topList) = 2

\* tl is the straight-line ranking of all resolved technicians, cut to
\* TOP_SHOWN, given the distance km[i] of each resolved roster position i
isStraightLineRanking(tl, km) ==
  /\ Len(tl) = Min(TOP_SHOWN, Cardinality(DOMAIN km))
  /\ \A k \in 1..Len(tl) :
       /\ tl[k].right = "straight"
       /\ \E i \in DOMAIN km : TECHS[i].tech_id = tl[k].tech_id /\ tl[k].km = km[i]
  /\ \A k, l \in 1..Len(tl) : k < l => tl[k].tech_id # tl[l].tech_id /\ tl[k].km <= tl[l].km
  /\ \A i \in DOMAIN km :
       (\A k \in 1..Len(tl) : tl[k].tech_id # TECHS[i].tech_id) => tl[Len(tl)].km <= km[i]

\* the gateway call failed: it threw, answered non-2xx, answered ok false, or
\* answered without a usable distance
gatewayFailed ==
  \/ response.kind \in {"network error", "http error", "empty body", "ok false"}
  \/ /\ response.kind = "ok"
     /\ \A i \in 1..Len(response.distances_km) : response.distances_km[i] = NULL

\* C2: whenever the gateway call fails, findClosest still finishes in mode
\* estimate: the best entry is the resolved technician with the smallest
\* straight-line distance (shown with a clamped factor) and the list is the
\* straight-line ranking of all resolved technicians.
C2_FailedGatewayFallsBack ==
  (pc = "done" /\ gatewayCalls = 1 /\ gatewayFailed) =>
    LET km == kmsOf(techLLs)
    IN  /\ resMeta = "estimate"
        /\ status = "Closest tech found (estimate)."
        /\ kpiRow = "flex" /\ topListDisplay = "grid"
        /\ isStraightLineRanking(topList, km)
        /\ resTitle = topList[1].tech_id
        /\ kmEl = topList[1].km
        /\ \A i \in DOMAIN km : kmEl <= km[i]
        /\ driveKmEl.tag = "factor"
        /\ driveKmEl.value >= 100000 /\ driveKmEl.value <= 1200000

C2_Witness ==
  /\ pc = "done"
  /\ gatewayCalls = 1
  /\ response.kind = "http error"
  /\ Len(topList) = 3
  /\ topList[1].km < topList[3].km

\* row a may stand before row b in the driving ranking
drivingOrdered(a, b) ==
  /\ a.driveMin = NULL => b.driveMin = NULL
  /\ (a.driveMin # NULL /\ b.driveMin # NULL) => a.driveMin <= b.driveMin
  /\ a.driveMin = b.driveMin =>
       /\ a.driveKm = NULL => b.driveKm = NULL
       /\ (a.driveKm # NULL /\ b.driveKm # NULL) => a.driveKm <= b.driveKm

\* C3: when the gateway call succeeds, the final ranking of the candidate
\* subset is ordered by driving duration ascending with every null duration
\* after every non-null one, and among equal durations by driving distance
\* ascending with null distance last.
C3_DrivingRankOrder ==
  (pc = "done" /\ response.kind = "ok") =>
    /\ Len(candidates) = Min(TOP_K, Len(scored))
    /\ { candidates[i] : i \in 1..Len(candidates) } = { scored[i] : i \in 1..Len(candidates) }
    /\ \A i \in 1..Len(candidates) :
         /\ rows[scored[i]].driveMin = response.durations_min[i]
         /\ rows[scored[i]].driveKm = response.distances_km[i]
    /\ \A i, j \in 1..Len(candidates) :
         i < j => drivingOrdered(rows[candidates[i]], rows[candidates[j]])
    /\ resMeta = "ORS driving" =>
         /\ listToRender = candidates
         /\ Len(topList) = Min(TOP_SHOWN, Len(candidates))
         /\ \A k \in 1..Len(topList) :
              topList[k].tech_id = TECHS[rows[candidates[k]].tech].tech_id

C3_Witness ==
  /\ pc = "done"
  /\ resMeta = "ORS driving"
  /\ Len(candidates) = 3
  /\ candidates # SubSeq(scored, 1, 3)
  /\ rows[candidates[1]].driveMin # NULL
  /\ rows[candidates[1]].driveMin = rows[candidates[2]].driveMin
  /\ rows[candidates[1]].driveKm # NULL
  /\ rows[candidates[2]].driveKm = NULL
  /\ rows[candidates[3]].driveMin = NULL

\* C4: in estimate mode the rendered ranking holds all resolved technicians
\* ordered by straight-line distance ascending, whether or not a gateway
\* attempt was made and failed in the same run.
C4_EstimateRankOrder ==
  (pc = "done" /\ resMeta = "estimate") =>
    LET km == kmsOf(techLLs)
    IN  /\ Len(scored) = Cardinality(DOMAIN km)
        /\ { rows[scored[k]].tech : k \in 1..Len(scored) } = DOMAIN km
        /\ \A k \in 1..Len(scored) : rows[scored[k]].km = km[rows[scored[k]].tech]
        /\ \A k \in 1..(Len(scored) - 1) :
             \/ rows[scored[k]].km < rows[scored[k + 1]].km
             \/ /\ rows[scored[k]].km = rows[scored[k + 1]].km
                /\ rows[scored[k]].tech < rows[scored[k + 1]].tech
        /\ Len(topList) = Min(TOP_SHOWN, Len(scored))
        /\ \A k \in 1..Len(topList) :
             /\ topList[k].tech_id = TECHS[rows[scored[k]].tech].tech_id
             /\ topList[k].right = "straight"
             /\ topList[k].km = rows[scored[k]].km

C4_Witness ==
  /\ pc = "done"
  /\ resMeta = "estimate"
  /\ gatewayCalls = 1
  /\ response.kind = "ok"
  /\ \E r \in 1..Len(rows) : rows[r].driveMin # NULL
  /\ Len(topList) = 3
  /\ scored # << 1, 2, 3 >>
  /\ topList[1].km < topList[2].km

\* C8: a run that produces a result reports exactly one mode; driving only if
\* the gateway call of that run succeeded and the reported best entry carries
\* the driving distance the gateway supplied for it; estimate otherwise.
C8_ModeReported ==
  pc = "done" =>
    /\ resMeta \in {"ORS driving", "estimate"}
    /\ resMeta = "ORS driving" <=> status = "Closest tech found (ORS driving)."
    /\ resMeta = "estimate" <=> status = "Closest tech found (estimate)."
    /\ resMeta = "ORS driving" =>
         /\ gatewayCalls = 1
         /\ response.kind = "ok"
         /\ usedORS
         /\ \E i \in 1..Len(response.distances_km) :
              /\ TECHS[rows[scored[i]].tech].tech_id = resTitle
              /\ response.distances_km[i] # NULL
              /\ driveKmEl = [tag |-> "ORS", value |-> response.distances_km[i]]
    /\ resMeta = "estimate" => driveKmEl.tag = "factor"

C8_Witness ==
  /\ pc = "done"
  /\ resMeta = "ORS driving"
  /\ Len(candidates) = 2
  /\ \E r \in 1..Len(rows) : rows[r].driveKm = NULL

\* C9: a run that ends in a terminal failure exits from the step that detected
\* it: it never calls the routing gateway (a request is posted only once the
\* postal, the ticket coordinate and a resolved technician are there), and the
\* no-postal failure occurs before any coordinate is resolved.
C9_FailuresExitEarly ==
  /\ pc = "failed" =>
       /\ gatewayCalls = 0
       /\ response.kind = "none"
       /\ status \in { "No valid Canadian postal code found.",
                       "Unable to resolve location for ticket postal code.",
                       "No tech locations available." }
  /\ (pc = "failed" /\ status = "No valid Canadian postal code found.") =>
       p = <<>> /\ resolveCalls = 0 /\ ticketLL = null /\ rows = <<>>
  /\ (pc = "failed" /\ status = "Unable to resolve location for ticket postal code.") =>
       p # <<>> /\ latLonForPostal(p, "", "") = null /\ rows = <<>>
  /\ (pc = "failed" /\ status = "No tech locations available.") =>
       p # <<>> /\ ticketLL # null /\ resolvedIn(techLLs) = {}
  /\ gatewayCalls > 0 => p # <<>> /\ ticketLL # null /\ rows # <<>>

C9_Witness ==
  /\ pc = "failed"
  /\ status = "No tech locations available."
  /\ ORS_ENDPOINT # ""
  /\ Len(TECHS) >= 1

\* the steps of one resolution and the order they may follow each other in
StepEdges ==
  { << "NormalizingPostal", "ResolvingTicket" >>, << "NormalizingPostal", "Failed" >>,
    << "ResolvingTicket", "ScoringRoster" >>, << "ResolvingTicket", "Failed" >>,
    << "ScoringRoster", "RoutingAttempt" >>, << "ScoringRoster", "EstimateFallback" >>,
    << "ScoringRoster", "Failed" >>,
    << "RoutingAttempt", "Ranked" >>, << "RoutingAttempt", "EstimateFallback" >>,
    << "EstimateFallback", "Ranked" >>, << "Ranked", "Done" >> }

traceInOrder ==
  /\ trace # <<>> => trace[1] = "NormalizingPostal"
  /\ \A k \in 1..(Len(trace) - 1) : << trace[k], trace[k + 1] >> \in StepEdges
  /\ \A k \in 1..(Len(trace) - 1) : trace[k] \notin {"Done", "Failed"}
  /\ pc = "done" <=> (trace # <<>> /\ trace[Len(trace)] = "Done")
  /\ pc = "failed" <=> (trace # <<>> /\ trace[Len(trace)] = "Failed")
  /\ pc = "awaiting" <=> (trace # <<>> /\ trace[Len(trace)] = "RoutingAttempt")
  /\ pc \in {"idle", "awaiting", "done", "failed"}

\* a terminal outcome is never left nor followed by a further step
terminalKept ==
  [][(pc \in {"done", "failed"}) => (pc' = pc /\ trace' = trace)]_vars

\* C10: every invocation follows the order normalize postal, resolve ticket,
\* score roster, then the routing attempt or the estimate fallback (the
\* fallback also after an attempt that failed), and reaches exactly one
\* terminal outcome, Failed or Done, which it keeps, provided the gateway
\* request eventually returns or errors.
C10_OrderAndTermination ==
  /\ []traceInOrder
  /\ terminalKept
  /\ (pc = "awaiting") ~> (pc \in {"done", "failed"})

C10_Witness ==
  /\ pc = "done"
  /\ trace = << "NormalizingPostal", "ResolvingTicket", "ScoringRoster",
                "RoutingAttempt", "EstimateFallback", "Ranked", "Done" >>

\* ------------------------------------------------------------------------
\* Properties of the routing gateway handler
\* ------------------------------------------------------------------------

\* the destination list the handler was given
givenDests == event.body.tech_postals

\* the handler answered a routing request with ok true
routedOk ==
  hpc = "returned" /\ event.httpMethod = "POST" /\ result.ok /\ result.hasArrays

\* what index i of an answer may hold for the i-th destination given: null, or
\* the route to that destination
routeOfGiven(i) ==
  IF normPostal(givenDests[i]) \in DOMAIN GEO_POINT
  THEN ROUTE[GEO_POINT[normPostal(givenDests[i])]]
  ELSE [km |-> NULL, sec |-> NULL]

\* C5: for every list of n destination postal codes given to the handler, an
\* ok true response has distances_km and durations_min of length exactly n,
\* and the value at index i is null or the routing result of input
\* destination i, never that of another destination.
C5_ArraysAlignedWithInput ==
  routedOk =>
    /\ Len(result.distances_km) = Len(givenDests)
    /\ Len(result.durations_min) = Len(givenDests)
    /\ \A i \in 1..Min(Len(givenDests), Len(result.distances_km)) :
         /\ result.distances_km[i] \in { NULL, routeOfGiven(i).km }
         /\ result.durations_min[i] \in { NULL, routeOfGiven(i).sec \div 60 }

\* destination i's geocoding failed: no match, or a failed request
geocodeFailed(i) == destOutcome[i] \in { "no match", "http error", "network error" }

\* destination i geocoded: from the cache or by a match
geocodeSucceeded(i) == destOutcome[i] \in { "cached", "match" }

\* the case of a partial geocoding failure: the origin geocoded, every
\* destination's geocoding ended, one failed and another succeeded
partialGeocodeFailure ==
  /\ hpc = "returned"
  /\ src # null
  /\ pending = {}
  /\ \E i, j \in 1..Len(destOutcome) : geocodeFailed(i) /\ geocodeSucceeded(j)

\* C6: if geocoding fails for one destination (no match or a non-success
\* HTTP status) while the origin and at least one other destination geocode,
\* the handler still issues the matrix request and, unless that request
\* itself fails, returns ok true with null at the failed destination's index
\* and at no geocoded destination's index but for a route the matrix lacks.
C6_PartialFailureNulled ==
  partialGeocodeFailure =>
    /\ matrixRequests = 1
    /\ result.error \notin { "ORS matrix failed", "fetch failed" } =>
         /\ result.ok
         /\ Len(result.distances_km) = Len(tech)
         /\ \A i \in 1..Len(tech) : geocodeFailed(i) => result.distances_km[i] = NULL

\* C7: if the origin (ticket) postal code cannot be geocoded, the handler
\* returns a structured ok:false result without throwing and issues no
\* matrix request.
C7_OriginFailureStructured ==
  srcOutcome \in { "no match", "http error", "network error" } =>
    /\ hpc = "returned"
    /\ result.statusCode = 200
    /\ ~result.ok
    /\ result.error \in { "Could not geocode ticket_postal", "ORS geocode failed", "fetch failed" }
    /\ ~result.hasArrays
    /\ matrixRequests = 0
    /\ pending = {}

C7_Witness ==
  /\ srcOutcome = "no match"
  /\ hpc = "returned"
  /\ Len(tech) = 2
  /\ Len(givenDests) = 3
  /\ ticket \notin DOMAIN GEO_CACHE

\* ------------------------------------------------------------------------
\* Properties of the resolver, the estimator and the normalizer, each function
\* called on its own
\* ------------------------------------------------------------------------

\* the region and the city a call of latLonForPostal works with
regionOfCall ==
  IF input.provHint # "" THEN trimStr(upperStr(input.provHint))
  ELSE provForPostal(input.p6)
cityOfCall ==
  IF input.cityHint # "" THEN trimStr(upperStr(input.cityHint)) ELSE ""

\* the coordinate of a resolved value
coordOf(ll) == LL(ll.lat, ll.lon)

\* a call of latLonForPostal on a postal that normalizes has returned
resolverReturned ==
  /\ output.fn = "latLonForPostal"
  /\ normalizePostal(input.p6) # <<>>

\* C11: latLonForPostal applies the tiers in order and the first hit wins: a
\* normalized postal in the override table gets the override coordinate at
\* tier 'postal' whatever the hints are; otherwise a city and a region that
\* are both available and paired in the city table give the city centroid at
\* tier 'city'; otherwise a region with a centroid gives that centroid at
\* tier 'prov'; otherwise the result is null.
C11_TiersInOrder ==
  resolverReturned =>
    LET q == normalizePostal(input.p6)
        out == output.value
    IN  IF q \in DOMAIN POSTAL_OVERRIDE
          THEN out # null /\ out.prec = "postal" /\ coordOf(out) = POSTAL_OVERRIDE[q]
        ELSE IF cityOfCall # "" /\ regionOfCall # ""
                /\ <<cityOfCall, regionOfCall>> \in DOMAIN CITY_COORD
          THEN out # null /\ out.prec = "city"
               /\ coordOf(out) = CITY_COORD[<<cityOfCall, regionOfCall>>]
        ELSE IF regionOfCall \in DOMAIN PROV_CENTER
          THEN out # null /\ out.prec = "prov" /\ coordOf(out) = PROV_CENTER[regionOfCall]
        ELSE out = null

\* an override wins over hints that name a city of the city table elsewhere
C11_Witness ==
  /\ resolverReturned
  /\ normalizePostal(input.p6) \in DOMAIN POSTAL_OVERRIDE
  /\ <<cityOfCall, regionOfCall>> \in DOMAIN CITY_COORD
  /\ CITY_COORD[<<cityOfCall, regionOfCall>>] # POSTAL_OVERRIDE[normalizePostal(input.p6)]
  /\ output.value.prec = "postal"

\* the region of a normalized postal q by the postal-province map, else by
\* its first character (an empty entry counts as no entry)
mapOrLetterRegion(q) ==
  IF q \in DOMAIN POSTAL_PROV /\ POSTAL_PROV[q] # ""
  THEN upperStr(POSTAL_PROV[q])
  ELSE provFromFirstLetter(q[1])

\* a call of latLonForPostal has returned a region centroid
regionTierReturned ==
  /\ resolverReturned
  /\ output.value # null
  /\ output.value.prec = "prov"

\* C12 as stated: for every valid postal and every combination of city and
\* region hints, the region used for the region-centroid tier is the entry of
\* the postal-province map when there is one, otherwise the region derived
\* from the first character.
C12_RegionFromMapElseLetter ==
  regionTierReturned =>
    LET r == mapOrLetterRegion(normalizePostal(input.p6))
    IN  output.value.prov = r /\ coordOf(output.value) = PROV_CENTER[r]

\* C12, amended: with no region hint the region used for the region-centroid
\* tier is the entry of the postal-province map when there is a non-empty
\* one, otherwise the region derived from the first character, and the
\* result is null exactly when that region has no centroid (no override, no
\* city hit); with a region hint the region used is the hint, upper-cased
\* and trimmed.
C12_RegionFromHintElseMapElseLetter ==
  /\ regionTierReturned =>
       LET r == IF input.provHint # "" THEN trimStr(upperStr(input.provHint))
                ELSE mapOrLetterRegion(normalizePostal(input.p6))
       IN  output.value.prov = r /\ coordOf(output.value) = PROV_CENTER[r]
  /\ (resolverReturned /\ input.provHint = "" /\ output.value = null) =>
       mapOrLetterRegion(normalizePostal(input.p6)) \notin DOMAIN PROV_CENTER

\* a call without a region hint resolved at the region tier by a map entry
\* that differs from the region of the first character
C12_Witness ==
  /\ regionTierReturned
  /\ input.provHint = ""
  /\ normalizePostal(input.p6) \in DOMAIN POSTAL_PROV
  /\ output.value.prov # provFromFirstLetter(normalizePostal(input.p6)[1])

\* a call made with the postal-province map absent, on a postal that normalizes
calledWithoutMap(fn) ==
  /\ output.fn = fn
  /\ POSTAL_PROV = <<>>
  /\ normalizePostal(input.p6) # <<>>

\* C13: with the postal-province map absent or empty every call returns; a
\* postal whose first letter is one of the 18 letters of the grammar derives
\* a region that has a centroid and resolves, with no hints, to a coordinate;
\* a normalized postal with any other first letter derives the empty region
\* and resolves to null unless it is in the override table.
C13_RuleTableAlone ==
  /\ calledWithoutMap("provForPostal") =>
       IF normalizePostal(input.p6)[1] \in PostalLetters
       THEN output.value \in DOMAIN PROV_CENTER
       ELSE output.value = ""
  /\ (calledWithoutMap("latLonForPostal") /\ input.cityHint = "" /\ input.provHint = "") =>
       IF normalizePostal(input.p6)[1] \in PostalLetters
       THEN output.value # null
       ELSE output.value = null <=> normalizePostal(input.p6) \notin DOMAIN POSTAL_OVERRIDE

\* a postal whose first letter derives no region resolved by the override table
C13_Witness ==
  /\ calledWithoutMap("latLonForPostal")
  /\ input.cityHint = "" /\ input.provHint = ""
  /\ normalizePostal(input.p6)[1] \notin PostalLetters
  /\ output.value # null
  /\ output.value.prec = "postal"

\* C14: effectiveDriveFactor returns a value within [1, 12] for every base
\* factor, those outside [0.8, 5] and those that are not finite included, and
\* every combination of tiers and regions.
C14_FactorWithinBounds ==
  output.fn = "effectiveDriveFactor" =>
    /\ isFinite(output.value)
    /\ 1 * 100000 <= output.value
    /\ output.value <= 12 * 100000

\* a base factor that is not finite, with both region factors applying
C14_Witness ==
  /\ output.fn = "effectiveDriveFactor"
  /\ ~isFinite(input.base)
  /\ input.ticketLL # null /\ input.ticketLL.prec = "prov"
  /\ input.techLL # null /\ input.techLL.prec = "prov"
  /\ output.value = 1 * 100000

\* C16: for every input x that normalizePostal accepts,
\* normalizePostal(formatPostal(normalizePostal(x))) = normalizePostal(x); a
\* call of formatPostal on x returns a string that normalizes as x does.
C16_FormatRoundTrip ==
  /\ (output.fn = "normalizePostal" /\ output.value # <<>>) =>
       normalizePostal(formatPostal(output.value)) = output.value
  /\ (output.fn = "formatPostal" /\ normalizePostal(input.s) # <<>>) =>
       /\ output.value # <<>>
       /\ normalizePostal(output.value) = normalizePostal(input.s)

\* an accepted input that is neither its normalized nor its formatted form
C16_Witness ==
  /\ output.fn = "normalizePostal"
  /\ output.value # <<>>
  /\ input.s # output.value
  /\ input.s # formatPostal(output.value)
  /\ Len(formatPostal(output.value)) = 7

\* C17: for every input string, the empty one (which null and undefined
\* become) and malformed ones included, normalizePostal returns either the
\* empty failure value or a token of exactly 6 characters, upper-case letters
\* at the odd positions and digits at the even ones, no separators; it
\* returns nothing else.
C17_FailureOrToken ==
  output.fn = "normalizePostal" =>
    \/ output.value = <<>>
    \/ /\ Len(output.value) = 6
       /\ \A i \in {1, 3, 5} : \E k \in 1..26 : output.value[i] = UPPER[k]
       /\ \A i \in {2, 4, 6} : output.value[i] \in Digits

\* six letters and digits in another pattern: the failure value
C17_Witness ==
  /\ output.fn = "normalizePostal"
  /\ Len(input.s) = 6
  /\ \A i \in 1..6 : toUpperChar(input.s[i]) \in AlphaNum
  /\ output.value = <<>>

\* t[i..j] is letter digit letter, whitespace or none, digit letter digit,
\* the letters in either case from the 18 of the grammar
grammarSubstring(t, i, j) ==
  /\ 1 <= i /\ i + 5 <= j /\ j <= Len(t)
  /\ toUpperChar(t[i]) \in PostalLetters /\ t[i + 1] \in Digits
  /\ toUpperChar(t[i + 2]) \in PostalLetters
  /\ \A k \in (i + 3)..(j - 3) : t[k] = " "
  /\ t[j - 2] \in Digits /\ toUpperChar(t[j - 1]) \in PostalLetters /\ t[j] \in Digits

\* t[i..j] has no letter, digit or underscore directly before or after it
atWordBoundaries(t, i, j) ==
  LET word == AlphaNum \cup DOMAIN UPPER_OF \cup {"_"}
  IN  /\ i = 1 \/ t[i - 1] \notin word
      /\ j = Len(t) \/ t[j + 1] \notin word

\* the normalized form of the leftmost of the substrings M of t, '' for none
firstNormalized(t, M) ==
  IF M = {} THEN <<>>
  ELSE LET m == CHOOSE x \in M : \A y \in M : x[1] <= y[1]
       IN  toUpperCase(SubSeq(t, m[1], m[1] + 2) \o SubSeq(t, m[2] - 2, m[2]))

\* the text of the scenario
scenarioText ==
  <<"s","e","n","d"," ","t","o"," ","K","1","A"," ","0","B","1"," ","a","s","a","p">>

\* C18 as stated: extractPostalFromText returns the normalized form of the
\* first substring of the text that matches the postal grammar
\* (case-insensitive, optional whitespace between the two halves), and the
\* failure value when no substring matches.
C18_FirstGrammarSubstring ==
  output.fn = "extractPostalFromText" =>
    LET t == input.text
    IN  output.value =
          firstNormalized(t, { x \in (1..Len(t)) \X (1..Len(t)) : grammarSubstring(t, x[1], x[2]) })

\* C18, amended: extractPostalFromText returns the normalized form of the
\* first substring of the text that matches the postal grammar and has no
\* letter, digit or underscore directly before or after it, and the failure
\* value when there is no such substring; the text of the scenario yields
\* K1A0B1, which formats as 'K1A 0B1'.
C18_FirstDelimitedSubstring ==
  output.fn = "extractPostalFromText" =>
    LET t == input.text
    IN  /\ output.value =
             firstNormalized(t, { x \in (1..Len(t)) \X (1..Len(t)) :
                                    /\ grammarSubstring(t, x[1], x[2])
                                    /\ atWordBoundaries(t, x[1], x[2]) })
        /\ t = scenarioText =>
             /\ output.value = <<"K","1","A","0","B","1">>
             /\ formatPostal(output.value) = <<"K","1","A"," ","0","B","1">>

\* a text whose first substring of the grammar is part of a longer word: the
\* later, delimited one is returned
C18_Witness ==
  /\ output.fn = "extractPostalFromText"
  /\ grammarSubstring(input.text, 2, 7)
  /\ ~atWordBoundaries(input.text, 2, 7)
  /\ output.value = <<"T","2","P","1","J","9">>

\* ------------------------------------------------------------------------
\* Properties of findClosest: the estimate's factor, the shortlist, the
\* candidates
\* ------------------------------------------------------------------------

\* a run has ended with an estimate
estimateShown == pc = "done" /\ resMeta = "estimate"

\* the roster position of the technician named in resTitle
shownBest == CHOOSE i \in 1..Len(TECHS) : TECHS[i].tech_id = resTitle

\* base x penalty x 1.8 in 1/100000, each factor present when its flag is set
factorFor(regionTicket, penalty, regionTech) ==
  LET f1 == IF regionTicket THEN baseFactor * penalty * 10 ELSE baseFactor * 1000
      f2 == IF regionTech THEN (f1 * 18) \div 10 ELSE f1
  IN  IF f2 < 1 * 100000 THEN 1 * 100000 ELSE IF f2 > 12 * 100000 THEN 12 * 100000 ELSE f2

\* C15: in estimate mode the factor applied to the best entry is the base
\* factor, times the penalty of the ticket's region (its table value, 6.0 for
\* an unlisted region) exactly when the ticket's coordinate was resolved at the
\* region tier, times 1.8 exactly when the best technician's coordinate was
\* resolved at the region tier, clamped to [1, 12]; the tiers are those
\* latLonForPostal produced for the ticket and for that technician.
C15_EstimateFactor ==
  estimateShown =>
    LET t == latLonForPostal(p, "", "")
        b == TECHS[shownBest]
        l == latLonForPostal(b.postal, b.city, b.province)
        pen == IF t.prov \in DOMAIN PROV_PENALTY THEN PROV_PENALTY[t.prov] ELSE 600
    IN  driveKmEl = [tag |-> "factor",
                     value |-> factorFor(t.prec = "prov", pen, l.prec = "prov")]

\* an estimate after a failed gateway call, the ticket resolved at the region
\* tier and the best technician at the city tier: the penalty alone
C15_Witness ==
  /\ estimateShown
  /\ gatewayCalls = 1
  /\ ticketLL.prec = "prov"
  /\ rows[scored[1]].ll.prec = "city"
  /\ Len(scored) > 1
  /\ driveKmEl.value = baseFactor * PROV_PENALTY[ticketLL.prov] * 10

\* the ranking a finished run renders: the candidates in driving order in
\* driving mode, the scored technicians in straight-line order otherwise
finalRanking == IF resMeta = "ORS driving" THEN candidates ELSE scored

\* the tech_id of the technician of row reference r
idOfRow(r) == TECHS[rows[r].tech].tech_id

\* C19: the shortlist findClosest shows is the first min(8, n) entries of the
\* final ranking, in the order of that ranking, n being its length; with
\* exactly r resolvable technicians in the roster and r <= 8, the shortlist
\* of an estimate has length r.
C19_ShortlistIsTopEight ==
  pc = "done" =>
    /\ Len(topList) = Min(8, Len(finalRanking))
    /\ \A i \in 1..Len(topList) : topList[i].tech_id = idOfRow(finalRanking[i])
    /\ resMeta = "estimate" =>
         /\ \A i \in 1..(Len(topList) - 1) : topList[i].km <= topList[i + 1].km
         /\ LET r == Cardinality(resolvedIn(techLLs))
            IN  r <= 8 => Len(topList) = r

\* a driving result over more than 8 candidates whose first entry was ranked
\* below the 8th by straight-line distance
C19_Witness ==
  /\ pc = "done"
  /\ resMeta = "ORS driving"
  /\ Len(candidates) > 8
  /\ Len(topList) = 8
  /\ \E k \in 9..Len(scored) : scored[k] = candidates[1]
  /\ topList[1].tech_id = resTitle

\* C20: the technicians posted to the routing gateway are exactly the first
\* min(25, n) entries of the straight-line ranking of the n scored
\* technicians, and in driving mode the best entry and every shortlist entry
\* is one of them: a technician ranked 26th or later is in no driving result.
C20_CandidatesAreTop25 ==
  gatewayCalls = 1 =>
    LET n == Len(scored)
        sent == { idOfRow(scored[i]) : i \in 1..Min(25, n) }
    IN  /\ \A i \in 1..(n - 1) : rows[scored[i]].km <= rows[scored[i + 1]].km
        /\ { scored[i] : i \in 1..n } = 1..Len(rows)
        /\ Len(request.tech_postals) = Min(25, n)
        /\ \A i \in 1..Len(request.tech_postals) :
             request.tech_postals[i] = TECHS[rows[scored[i]].tech].postal
        /\ (pc = "done" /\ resMeta = "ORS driving") =>
             /\ resTitle \in sent
             /\ \A k \in 1..Len(topList) : topList[k].tech_id \in sent
             /\ \A i \in 26..n : /\ resTitle # idOfRow(scored[i])
                                  /\ rows[scored[i]].driveKm = NULL

\* a roster of 27 scored technicians: 25 are posted, and the driving result
\* names the one ranked 25th by straight-line distance as the best
C20_Witness ==
  /\ pc = "done"
  /\ resMeta = "ORS driving"
  /\ Len(scored) = 27
  /\ Len(request.tech_postals) = 25
  /\ resTitle = idOfRow(scored[25])

\* ------------------------------------------------------------------------
\* Calls sent per run
\* ------------------------------------------------------------------------

\* the invocation's matrix request ended in a failure
matrixFailed ==
  hpc = "returned" /\ matrixRequests = 1 /\ ~result.ok

\* C21: a findClosest run sends at most one request to the gateway and an
\* invocation of handler sends at most one matrix request; a request is only
\* ever sent by a run or an invocation that has sent none, so that after a
\* failed call (the run showing its estimate, the invocation returning
\* ok false) no further call is made.
C21_AtMostOneCall ==
  [][ /\ gatewayCalls' <= 1
      /\ matrixRequests' <= 1
      /\ gatewayCalls' # gatewayCalls =>
            gatewayCalls = 0 /\ gatewayCalls' = 1 /\ response.kind = "none"
      /\ matrixRequests' > matrixRequests => matrixRequests = 0 /\ result = noResult
      /\ (pc = "done" /\ gatewayFailed) => gatewayCalls' = gatewayCalls
      /\ matrixFailed => matrixRequests' <= matrixRequests ]_vars

C21_Witness ==
  /\ pc = "done"
  /\ gatewayCalls = 1
  /\ response.kind = "http error"
  /\ resMeta = "estimate"
  /\ matrixFailed
  /\ result.error = "ORS matrix failed"

\* ------------------------------------------------------------------------
\* Candidates without driving data
\* ------------------------------------------------------------------------

\* the gateway had no driving figure for row reference r
noDrivingData(r) == rows[r].driveKm = NULL /\ rows[r].driveMin = NULL

\* the position of row reference r in the straight-line ranking
straightLineRank(r) == CHOOSE i \in 1..Len(scored) : scored[i] = r

\* the body had null for some candidates and both values for every other one
partialNulls ==
  /\ response.kind = "ok"
  /\ \E i \in 1..Len(response.durations_min) :
       response.durations_min[i] = NULL /\ response.distances_km[i] = NULL
  /\ \E i \in 1..Len(response.durations_min) : response.durations_min[i] # NULL
  /\ \A i \in 1..Len(response.durations_min) :
       response.durations_min[i] = NULL <=> response.distances_km[i] = NULL

\* C22: after an ok body with null for some candidates and values for the
\* others, every candidate without driving data stands behind every candidate
\* with a driving duration, the candidates without driving data stand among
\* themselves in ascending straight-line order (the order they had in scored),
\* and the candidates with a duration stand in ascending duration.
C22_NullsLastInStraightLineOrder ==
  (pc = "done" /\ partialNulls) =>
    \A i, j \in 1..Len(candidates) :
      i < j =>
        /\ noDrivingData(candidates[i]) => noDrivingData(candidates[j])
        /\ (noDrivingData(candidates[i]) /\ noDrivingData(candidates[j])) =>
             /\ straightLineRank(candidates[i]) < straightLineRank(candidates[j])
             /\ rows[candidates[i]].km <= rows[candidates[j]].km
        /\ (~noDrivingData(candidates[i]) /\ ~noDrivingData(candidates[j])) =>
             rows[candidates[i]].driveMin <= rows[candidates[j]].driveMin

C22_Witness ==
  /\ pc = "done"
  /\ partialNulls
  /\ Len(candidates) = 3
  /\ candidates = << scored[3], scored[1], scored[2] >>
  /\ ~noDrivingData(scored[3])
  /\ noDrivingData(scored[1]) /\ noDrivingData(scored[2])
  /\ rows[scored[1]].km < rows[scored[2]].km
  /\ resMeta = "ORS driving"

\* ------------------------------------------------------------------------
\* Destinations per matrix request
\* ------------------------------------------------------------------------

\* the destinations of the matrix request handler (Netlify) is sending
handlerDestinations == validIdx(destsRaw)

\* the Netlify handler's matrix request names at most 40 destinations
handlerRequestCapped ==
  /\ Len(tech) <= MAX_DESTS
  /\ hpc = "matrix" => Len(handlerDestinations) <= MAX_DESTS

\* a body of 41 destinations reached the Netlify handler's matrix request
handlerRequestCut ==
  /\ hpc = "matrix"
  /\ Len(event.body.tech_postals) = 41
  /\ Len(handlerDestinations) = 40

\* C23: every matrix request a routing gateway handler issues, the Netlify
\* handler's and the edge function's, names at most 40 destinations whatever
\* the length of the destination list of the incoming request.
C23_AtMostFortyDestinations ==
  /\ hpc = "matrix" => Len(handlerDestinations) <= 40
  /\ payload.sent => Len(payload.locations) - 1 <= 40

\* ------------------------------------------------------------------------
\* The shared geocode cache
\* ------------------------------------------------------------------------

\* C24: under any interleaving of the calls of geocodePostalCA that concurrent
\* invocations of handler make, every entry of GEO_CACHE for a key k holds a
\* coordinate the geocoder returned for k: never the failure value, never a
\* coordinate obtained for another key.
C24_CacheHoldsOwnCoordinate ==
  \A k \in DOMAIN GEO_CACHE :
    /\ GEO_CACHE[k] # null
    /\ << k, GEO_CACHE[k] >> \in served
    /\ GEO_CACHE[k] \in GeoAnswers(k)
    /\ \A k2 \in DOMAIN GEO_POINT : k2 # k => GEO_CACHE[k] \notin GeoAnswers(k2)

C24_Witness ==
  /\ DOMAIN GEO_CACHE # {}
  /\ \E c, d \in 1..MaxCalls :
       /\ c # d
       /\ geoCalls[c].at = "returned" /\ geoCalls[c].value # null
       /\ geoCalls[c].value # GEO_CACHE[geoCalls[c].key]
       /\ geoCalls[d].at = "json" /\ geoCalls[d].data = null

\* ------------------------------------------------------------------------
\* Geocoder requests per postal
\* ------------------------------------------------------------------------

\* destination i of the invocation was sent to the geocoder
destFetched(i) == destOutcome[i] # "cached"

\* the invocation of handler (Netlify) sent no key to the geocoder twice
handlerGeocodesOnce ==
  /\ \A i, j \in DOMAIN destOutcome :
       (i # j /\ tech[i] = tech[j]) => ~(destFetched(i) /\ destFetched(j))
  /\ \A i \in DOMAIN destOutcome :
       (srcOutcome # "none" /\ tech[i] = ticket) => ~destFetched(i)

\* the request to the edge function sent no postal to the geocoder twice
edgeGeocodesOnce ==
  \A i, j \in DOMAIN geocodeCalls : i # j => geocodeCalls[i] # geocodeCalls[j]

\* the edge function sends the geocoder no postal its geoCache holds: a postal
\* is sent again only after a fetch that rejected
edgeCachedNotRefetched ==
  [][\A i \in DOMAIN geocodeCalls' :
       i > Len(geocodeCalls) => geocodeCalls'[i] \notin DOMAIN geoCache']_vars

\* C25: within one invocation of a gateway handler the geocoder is called at
\* most once for each distinct normalized postal, also when the postal occurs
\* several times in the destination list.
C25_OneGeocodePerPostal ==
  handlerGeocodesOnce /\ edgeGeocodesOnce

\* ------------------------------------------------------------------------
\* The handler's answer
\* ------------------------------------------------------------------------

\* the invocation ended with a status code and a body with an ok flag
structuredResponse ==
  /\ hpc = "returned"
  /\ result.statusCode \in { 200, 400, 405, 500 }
  /\ result.ok \in BOOLEAN
  /\ ~result.ok => result.error # ""

\* every invocation on a body that is not the JSON text null ends structured
structuredUnlessNull ==
  (hpc # "idle" /\ event.body.kind # "null") =>
    /\ hpc # "threw"
    /\ hpc = "returned" => structuredResponse

\* C26: handler answers every event with a structured response, a status
\* code and a body with an ok flag, whatever the method, the body (JSON that
\* does not parse or is no object included) and the outcome of the external
\* calls; its promise is never rejected.
C26_AlwaysStructuredResponse ==
  /\ hpc # "threw"
  /\ hpc = "returned" => structuredResponse

\* ------------------------------------------------------------------------
\* What a shortlist entry shows
\* ------------------------------------------------------------------------

\* lines 803-812: the figures in the right column of a shortlist item: the
\* ETA and the driving distance (miles, km) of a row with driving figures in
\* driving mode, the straight-line distance (miles, km) otherwise
figuresShown(item) ==
  IF item.right = "driving" THEN { "ETA", "driving distance" }
  ELSE { "straight-line distance" }

\* what the object of row reference r holds beside the technician: km and
\* miles, the coordinate with its precision, and the driving figures that
\* are not null; it has no field for an estimated distance or time
figuresHeld(r) ==
  { "straight-line distance", "precision tier" }
  \cup (IF rows[r].driveKm # NULL THEN { "driving distance" } ELSE {})
  \cup (IF rows[r].driveMin # NULL THEN { "ETA" } ELSE {})

\* fs has the four annotations
fullyAnnotated(fs) ==
  /\ "straight-line distance" \in fs
  /\ "effective distance" \in fs \/ "driving distance" \in fs
  /\ "ETA" \in fs
  /\ "precision tier" \in fs

\* every shortlist entry shows its straight-line distance or, with driving
\* figures in driving mode, its ETA and driving distance; the object behind
\* it holds the straight-line distance and the precision of its coordinate
entriesShowOneDistance ==
  pc = "done" =>
    \A k \in 1..Len(topList) :
      /\ figuresShown(topList[k]) \in { { "ETA", "driving distance" }, { "straight-line distance" } }
      /\ resMeta = "estimate" => figuresShown(topList[k]) = { "straight-line distance" }
      /\ topList[k].right = "driving" =>
           figuresHeld(finalRanking[k]) = { "straight-line distance", "precision tier",
                                            "driving distance", "ETA" }
      /\ rows[finalRanking[k]].ll.prec \in { "postal", "city", "prov" }

\* C27: every shortlist entry findClosest produces, in both modes, is
\* annotated with its straight-line distance, its effective or driving
\* distance, its ETA, and the precision tier of its coordinate.
C27_EntriesFullyAnnotated ==
  pc = "done" =>
    \A k \in 1..Len(topList) :
      fullyAnnotated(figuresShown(topList[k]) \cup figuresHeld(finalRanking[k]))

\* ------------------------------------------------------------------------
\* Postal formats
\* ------------------------------------------------------------------------

\* five digits
isZip(s) == Len(s) = 5 /\ \A i \in 1..5 : s[i] \in Digits

\* the browser normalizer returns the token of every string that is an
\* alternating letter/digit code once trimmed, and fails on five digits; the
\* gateway's normPostal returns five digits as they are
oneFormatOnly ==
  /\ output.fn = "normalizePostal" =>
       /\ IsLDLDLD(toUpperCase(trim(input.s))) => output.value = toUpperCase(trim(input.s))
       /\ isZip(trim(input.s)) => output.value = <<>>
  /\ (output.fn = "normPostal" /\ isZip(trim(input.s))) => output.value = trim(input.s)

\* C28: the postal normalizer supports two formats: the 6-character
\* alternating letter/digit code normalizes to its token, and a numeric
\* 5-digit zip normalizes to its 5-digit token.
C28_ZipNormalizes ==
  output.fn = "normalizePostal" =>
    /\ IsLDLDLD(toUpperCase(trim(input.s))) => output.value = toUpperCase(trim(input.s))
    /\ isZip(trim(input.s)) => output.value = trim(input.s)

\* ------------------------------------------------------------------------
\* Straight-line distance
\* ------------------------------------------------------------------------

RECURSIVE numberOf(_)
numberOf(t) ==
  IF t = <<>> THEN 0
  ELSE 10 * numberOf(SubSeq(t, 1, Len(t) - 1))
       + (CHOOSE d \in 0..9 : ToString(d) = t[Len(t)])

\* the minutes a travel time text stands for
minutesOf(t) ==
  IF \E i \in 1..Len(t) : t[i] = "h"
  THEN Let(CHOOSE i \in 1..Len(t) : t[i] = "h", LAMBDA i :
         60 * numberOf(SubSeq(t, 1, i - 1)) + numberOf(SubSeq(t, i + 2, Len(t) - 1)))
  ELSE numberOf(SubSeq(t, 1, Len(t) - 4))

\* a finite distance at a speed of 20 to 130 was rendered by etaFromKm
etaRendered ==
  /\ output.fn = "etaFromKm"
  /\ isFinite(input.km) /\ input.speed \in 20..130

\* the two renderers stand for the same number of minutes, and the minutes
\* component of etaFromKm lies in 0..60
etaSameDuration ==
  etaRendered =>
    /\ minutesOf(output.value)
         = minutesOf(etaFromMinutes(60 * input.km, 10 * input.speed))
    /\ roundFraction(6 * (input.km % (10 * input.speed)), input.speed) \in 0..60

\* the minutes component reached 60 after a whole hour
etaSixtyMinutes ==
  /\ etaRendered
  /\ output.value = hourText(1, 60)

\* C30: for every non-negative distance and every speed in [20, 130],
\* etaFromKm renders '{h}h {m}m' when the travel time is at least one hour
\* and '{m} min' otherwise, the minutes component m is the rounded remainder
\* and lies in 0..59, and etaFromKm(km, speed) renders the same text as
\* etaFromMinutes(60 * km / speed).
C30_EtaTextsAgree ==
  etaRendered =>
    /\ roundFraction(6 * (input.km % (10 * input.speed)), input.speed) \in 0..59
    /\ output.value = etaFromMinutes(60 * input.km, 10 * input.speed)
    /\ output.value =
         IF input.km >= 10 * input.speed
         THEN hourText(input.km \div (10 * input.speed),
                       roundFraction(6 * (input.km % (10 * input.speed)), input.speed))
         ELSE minText(roundFraction(6 * input.km, input.speed))

\* ------------------------------------------------------------------------
\* Edge function: admin upload and table reads
\* ------------------------------------------------------------------------

\* the request answered is a POST to /admin/techdbs/upload
adminPostAnswered ==
  /\ apc = "responded"
  /\ req.method = "POST"
  /\ pathOf(req.path) = << "/admin/techdbs/upload" >>

\* its x-admin-token header does not equal ADMIN_TOKEN, or ADMIN_TOKEN is unset
tokenRefused == req.token # ADMIN_TOKEN \/ ADMIN_TOKEN = ""

\* the statements that write: table creation, column addition, truncate, upsert
writesOf(ops) ==
  SelectSeq(ops, LAMBDA o : o.op \in { "create", "alter", "truncate", "upsert" })

\* an upload with the right token did create a table and upsert rows
uploadWrote ==
  /\ adminPostAnswered
  /\ apiResponse.status = 200
  /\ \E i \in 1..Len(dbOps) : dbOps[i].op = "create"
  /\ db[CA_W2_TABLE].exists /\ db[CA_W2_TABLE].rows # {}

\* C31 as stated: a POST to /admin/techdbs/upload whose x-admin-token header
\* does not equal ADMIN_TOKEN, and every such POST when ADMIN_TOKEN is unset,
\* is answered 401 and performs no table creation, column addition, truncate
\* or upsert on any table.
C31_UnauthorizedAnswered401 ==
  (adminPostAnswered /\ tokenRefused) =>
    /\ apiResponse.status = 401
    /\ writesOf(dbOps) = <<>>

\* C31: such a POST performs no table creation, column addition, truncate or
\* upsert on any table and leaves every table as it was; it is answered 401
\* when SUPABASE_URL and SUPABASE_SERVICE_ROLE_KEY are both set, and 500, as
\* every request but the preflight is, when either is missing.
C31_UnauthorizedWritesNothing ==
  (adminPostAnswered /\ tokenRefused) =>
    /\ apiResponse.status = (IF SUPABASE_URL # "" /\ SERVICE_ROLE # "" THEN 401 ELSE 500)
    /\ ~apiResponse.ok
    /\ writesOf(dbOps) = <<>>
    /\ dbOps = <<>>

\* a workbook for a table yet to be created, posted in replace mode with no
\* token to a function whose ADMIN_TOKEN is unset, was answered 401
C31_Witness ==
  /\ adminPostAnswered
  /\ ADMIN_TOKEN = "" /\ req.token = ""
  /\ req.file.kind = "workbook" /\ req.mode = "replace"
  /\ sheetToTable(req.file.sheets[1].name) = CA_W2_TABLE
  /\ apiResponse.status = 401
  /\ ~db[CA_W2_TABLE].exists

\* ------------------------------------------------------------------------
\* The best entry in driving mode
\* ------------------------------------------------------------------------

\* findClosest ended reporting driving mode
drivingReported == pc = "done" /\ resMeta = "ORS driving"

\* in driving mode the best entry has a driving distance
drivingBestHasDistance ==
  drivingReported => best # 0 /\ rows[best].driveKm # NULL

\* C32: whenever findClosest reports driving mode, the reported best entry
\* has both a non-null driving distance and a non-null driving duration
\* supplied by the gateway.
C32_DrivingBestHasDuration ==
  drivingReported =>
    /\ best # 0
    /\ rows[best].driveKm # NULL
    /\ rows[best].driveMin # NULL

\* ------------------------------------------------------------------------
\* The best entry and the shortlist
\* ------------------------------------------------------------------------

\* the best entry reported is the first item of the shortlist
bestHeadsShortlist == topList # <<>> /\ topList[1].tech_id = resTitle

\* in estimate mode the best entry is the first item of the shortlist; in
\* driving mode it is the first item that shows driving figures, when one of
\* the eight does
bestHeadsItsKind ==
  /\ (pc = "done" /\ resMeta = "estimate") => bestHeadsShortlist
  /\ (drivingReported /\ \E i \in 1..Len(topList) : topList[i].right = "driving") =>
       \E i \in 1..Len(topList) :
         /\ topList[i].right = "driving"
         /\ topList[i].tech_id = resTitle
         /\ \A j \in 1..(i - 1) : topList[j].right = "straight"

\* C33: in every successful findClosest run, in both modes, the reported
\* best entry is the first entry of the shortlist rendered in that run.
C33_BestIsFirstOfShortlist ==
  pc = "done" => bestHeadsShortlist

\* ------------------------------------------------------------------------
\* End to end alignment of the driving figures
\* ------------------------------------------------------------------------

\* the request a run posted has been taken up by handler
requestTaken == pc \in { "awaiting", "done" } /\ gatewayCalls = 1 /\ hpc # "idle"

\* the route the matrix service has to the postal of a technician
routeOfTech(t) == ROUTE[GEO_POINT[normPostal(TECHS[t].postal)]]

\* the figures of row reference r are null or those of the route to its own
\* technician
ownFigures(r) ==
  /\ rows[r].driveKm \in { NULL, routeOfTech(rows[r].tech).km }
  /\ rows[r].driveMin \in { NULL, routeOfTech(rows[r].tech).sec \div 60 }

\* C34: end to end, for every request findClosest sends to the Netlify
\* gateway, the gateway neither drops nor truncates a destination: each
\* candidate postal is non-empty after the gateway's normalization and there
\* are at most 25 of them, so the destinations handler keeps are the
\* candidates in order, entry i of the returned arrays is the figure of the
\* route to candidate i, and every technician is shown null or its own
\* driving figures.
C34_FiguresStayWithTheirTechnician ==
  requestTaken =>
    /\ Len(request.tech_postals) = Len(candidates)
    /\ Len(request.tech_postals) <= TOP_K
    /\ \A i \in 1..Len(request.tech_postals) :
         /\ normPostal(request.tech_postals[i]) # <<>>
         /\ request.tech_postals[i] = TECHS[rows[scored[i]].tech].postal
    /\ tech = [i \in 1..Len(request.tech_postals) |-> normPostal(request.tech_postals[i])]
    /\ (hpc = "returned" /\ result.hasArrays) =>
         /\ Len(result.distances_km) = Len(candidates)
         /\ Len(result.durations_min) = Len(candidates)
    /\ (pc = "done" /\ response.kind = "ok") =>
         /\ \A i \in 1..Len(request.tech_postals) :
              /\ rows[scored[i]].driveKm = response.distances_km[i]
              /\ rows[scored[i]].driveMin = response.durations_min[i]
         /\ \A r \in 1..Len(rows) : ownFigures(r)

\* a roster whose first entry has no postal and is no candidate; of its two
\* candidates the first was not geocoded and the second is shown with the
\* figures of its own route
C34_Witness ==
  /\ requestTaken
  /\ pc = "done" /\ response.kind = "ok"
  /\ resMeta = "ORS driving"
  /\ Len(TECHS) = 3 /\ TECHS[1].tech_id = 4
  /\ Len(request.tech_postals) = 2
  /\ destOutcome[1] = "no match" /\ destOutcome[2] = "match"
  /\ rows[scored[1]].driveKm = NULL
  /\ rows[scored[2]].driveKm = routeOfTech(rows[scored[2]].tech).km
  /\ rows[scored[2]].driveKm # routeOfTech(rows[scored[1]].tech).km

\* a request for a roster of 27 went out with 25 destinations and none was cut
handlerGotTwentyFive ==
  /\ requestTaken /\ pc = "done" /\ response.kind = "ok"
  /\ Len(TECHS) = 27 /\ Len(tech) = TOP_K /\ Len(response.distances_km) = TOP_K

\* ------------------------------------------------------------------------
\* C35: overlapping runs of findClosest
\* ------------------------------------------------------------------------

\* a call of findClosest ends in this step: at its click, or resumed
runEnds(r) ==
  /\ r \in 1..Len(runs')
  /\ runs'[r].pc \in { "done", "failed" }
  /\ r \in 1..Len(runs) => runs[r].pc = "awaiting"

\* the second call was started while the first was at its await, and both
\* have ended
overlapEnded(rr) ==
  /\ Len(rr) = 2
  /\ rr[2].overlapped
  /\ \A r \in 1..2 : rr[r].pc \in { "done", "failed" }

\* the status, best entry and shortlist of the panel pn
displayed(pn) ==
  << pn.status, pn.resTitle, pn.topList, pn.topListDisplay >>

\* the locals of a call at its await are written by no step of another call
\* or handler
runsKeepTheirLocals ==
  [][\A r \in 1..Len(runs) :
       runs[r].pc = "awaiting" /\ runs'[r].pc = "awaiting" => runs'[r] = runs[r]]_vars

\* when a call ends, the panel shows what that call wrote
lastEndedRunShown ==
  [][\A r \in 1..Len(runs') : runEnds(r) => panel' = runs'[r].shown]_vars

\* C35: when the later of two overlapping runs of findClosest ends, the
\* status, best entry and shortlist displayed are those written by the run
\* that was started last.
C35_LastStartedRunShown ==
  [][(overlapEnded(runs') /\ \E r \in 1..2 : runEnds(r))
       => displayed(panel') = displayed(runs'[2].shown)]_vars

\* two overlapping runs have ended, the first after the second
firstRunEndedLast ==
  /\ overlapEnded(runs)
  /\ panel = runs[1].shown
  /\ displayed(runs[1].shown) # displayed(runs[2].shown)

\* ------------------------------------------------------------------------
\* C36: the debounced auto-detect
\* ------------------------------------------------------------------------

\* a timer fires in this step: it leaves the pending timers, and tmo, which
\* every input event sets, stays
timerFires == timers' # timers /\ tmo' = tmo

\* the callback leaves a field that normalizes as it is, and writes the
\* field only when it does not normalize and the text holds a code, whose
\* formatted form it writes
firesOnInvalidFieldOnly ==
  /\ normalizePostal(postalInput) # <<>> => postalInput' = postalInput
  /\ postalInput' # postalInput =>
       /\ normalizePostal(postalInput) = <<>>
       /\ extractPostalFromText(ticketText) # <<>>
       /\ postalInput' = formatPostal(extractPostalFromText(ticketText))

\* C36: after any sequence of input events of ticketText at most one timer
\* is pending, and the timer's callback never changes a postal field that
\* normalizes: it fills the field only when the field does not normalize
\* and the ticket text contains a postal code.
C36_DebounceOneTimerFillsInvalidField ==
  /\ [](Cardinality(timers) <= 1)
  /\ [][timerFires => firesOnInvalidFieldOnly]_vars

\* every input event allowed has happened, the last timer has fired and
\* filled the field from the text
C36_Witness ==
  /\ timersSet = MaxInputs
  /\ timers = {}
  /\ status = "Postal auto-detected from ticket."
  /\ extractPostalFromText(ticketText) # <<>>
  /\ postalInput = formatPostal(extractPostalFromText(ticketText))

\* a timer is pending over a field that normalizes and a text with another code
timerPendingOverValidField ==
  /\ timers # {}
  /\ normalizePostal(postalInput) # <<>>
  /\ extractPostalFromText(ticketText) # <<>>
  /\ extractPostalFromText(ticketText) # normalizePostal(postalInput)

\* ------------------------------------------------------------------------
\* C37: the postal field before the ticket text
\* ------------------------------------------------------------------------

\* a call of findClosest starts in this step
findClosestStarts == Len(runs') = Len(runs) + 1

\* the call started in this step
started == runs'[Len(runs')]

\* a field that normalizes gives the ticket postal: the text is not read,
\* the field stays, and the location resolved is that of the field's code
validFieldDecides ==
  normalizePostal(postalInput) # <<>> =>
    /\ started.p = normalizePostal(postalInput)
    /\ ~started.textRead
    /\ postalInput' = postalInput
    /\ started.ticketLL # null =>
         started.ticketLL = latLonForPostal(normalizePostal(postalInput), "", "")

\* the text is read only for a field that does not normalize; a code
\* extracted from it is the ticket postal and is written, formatted, to the
\* field
textOnlyForInvalidField ==
  /\ started.textRead => normalizePostal(postalInput) = <<>>
  /\ (started.textRead /\ extractPostalFromText(ticketText) # <<>>) =>
       /\ started.p = extractPostalFromText(ticketText)
       /\ postalInput' = formatPostal(extractPostalFromText(ticketText))
  /\ (started.textRead /\ extractPostalFromText(ticketText) = <<>>) =>
       /\ started.pc = "failed"
       /\ postalInput' = postalInput

\* C37: when the postal field holds a valid postal code, findClosest resolves
\* that code and does not consult the ticket text, even if the text contains
\* a different code; the text is used only when the field does not
\* normalize, and then the field is overwritten with the formatted
\* extracted code.
C37_ValidFieldBeforeTicketText ==
  [][findClosestStarts => validFieldDecides /\ textOnlyForInvalidField]_vars

\* a run has ended with a result for the code of the field, the ticket text
\* holding a different code
C37_Witness ==
  \E r \in 1..Len(runs) :
    /\ runs[r].pc = "done"
    /\ ~runs[r].textRead
    /\ runs[r].p = normalizePostal(postalInput)
    /\ runs[r].shown = panel
    /\ extractPostalFromText(ticketText) # <<>>
    /\ extractPostalFromText(ticketText) # runs[r].p

\* a run has ended with a result for the code extracted from the text and
\* written to the field
fieldFilledFromText ==
  \E r \in 1..Len(runs) :
    /\ runs[r].pc = "done"
    /\ runs[r].textRead
    /\ runs[r].p = extractPostalFromText(ticketText)
    /\ postalInput = formatPostal(runs[r].p)
    /\ status # "Postal auto-detected from ticket."
    /\ timersSet = 1 /\ timers = { 1 }

\* ------------------------------------------------------------------------
\* C38: the panel after a failed run
\* ------------------------------------------------------------------------

\* the call started in this step ends in one of its failures
findClosestFails == findClosestStarts /\ started.pc = "failed"

\* the panel shows no best technician, KPI row or shortlist
panelEmptied ==
  /\ resTitle = 0
  /\ kpiRow = "none"
  /\ topListDisplay = "none"

\* the failure of lines 836-843 empties the panel
noPostalFailureEmptiesPanel ==
  [][(findClosestFails /\ started.p = <<>>) => panelEmptied']_vars

\* C38: after a run of findClosest ends in any of its failures (no valid
\* postal, unresolved ticket location, no technician locations), the panel
\* shows no best technician, KPI row or shortlist of an earlier run.
C38_FailurePanelEmptied ==
  [][findClosestFails => panelEmptied']_vars

\* a run has failed on an unresolved ticket location and the panel still
\* shows the result of the run before it
failedRunOverOldResult ==
  /\ Len(runs) = 2
  /\ runs[1].pc = "done" /\ runs[2].pc = "failed"
  /\ status = "Unable to resolve location for ticket postal code."
  /\ resTitle # 0 /\ resTitle = runs[1].shown.resTitle
  /\ kpiRow = "flex"
  /\ topListDisplay = "grid" /\ topList = runs[1].shown.topList

\* ------------------------------------------------------------------------
\* C39: the tables the read routes return rows from
\* ------------------------------------------------------------------------

\* the request served is for a read route and names a table
readServed ==
  /\ req # noRequest
  /\ req.method # "OPTIONS"
  /\ SUPABASE_URL # "" /\ SERVICE_ROLE # ""
  /\ pathOf(req.path) \in DOMAIN READ_DEFAULT \/ isExport(pathOf(req.path))
  /\ readTable(req, pathOf(req.path)) # ""

\* a table outside the allow-list is neither queried nor returned
refusedUnqueried ==
  readTable(req, pathOf(req.path)) \notin ALLOWED_TABLES =>
    /\ apc # "select"
    /\ \A i \in 1..Len(dbOps) : dbOps[i].op # "select"
    /\ apiResponse.rows = {}
    /\ apc = "responded" => apiResponse.status = 403

\* the export route queries and returns allowed tables only
exportReadsAllowedOnly ==
  (readServed /\ isExport(pathOf(req.path))) => refusedUnqueried

\* C39: every read route that takes a table name from the request returns
\* rows only from tables of the allow-list; a request naming any other
\* table is rejected without a query of it.
C39_ReadsOnlyAllowedTables == readServed => refusedUnqueried

\* a route with a table parameter has returned the rows of a table outside
\* the allow-list
unlistedTableReturned ==
  /\ apc = "responded"
  /\ apiResponse.status = 200
  /\ apiResponse.table = "billing"
  /\ apiResponse.rows = db["billing"].rows
  /\ "billing" \notin ALLOWED_TABLES

\* the export route has refused a table outside the allow-list
exportRefused ==
  /\ apc = "responded"
  /\ isExport(pathOf(req.path))
  /\ apiResponse.status = 403
  /\ dbOps = <<>>

====
